---- MODULE Spec2Model ----
(***************************************************************************)
(* Forge blueprint normalizer (src/src/lib/normalizeBlueprint.ts).         *)
(*                                                                         *)
(* The normalizer is a pure function from an untyped JSON document to a    *)
(* render-safe blueprint plus a warning list.  JavaScript values are       *)
(* modelled as tagged records:                                             *)
(*   undefined, null, boolean, number, string, array (a sequence of        *)
(*   values) and object (a sequence of <<key, value>> pairs in insertion   *)
(*   order, keys unique).                                                  *)
(* Numbers are integers (plus NaN).  Two literals of the source that are   *)
(* not ASCII are written in ASCII: the em dash of the warning details is   *)
(* "-", the wrench emoji of the fallback icon is "wrench" and the middle   *)
(* dot that joins the UserProfile stats is "*".                            *)
(***************************************************************************)
EXTENDS Integers, Sequences, FiniteSets, TLC

VARIABLES raw, pc, first, second, history, activeIndex, workflowNodes,
          instance, submit

vars ==
  <<raw, pc, first, second, history, activeIndex, workflowNodes, instance, submit>>

(***************************************************************************)
(* JavaScript values                                                       *)
(***************************************************************************)
Undefined == [k |-> "undefined"]
Null == [k |-> "null"]
Bool(b) == [k |-> "boolean", b |-> b]
Num(n) == [k |-> "number", n |-> n]
NaN == [k |-> "number", nan |-> TRUE]
Str(s) == [k |-> "string", s |-> s]
Arr(a) == [k |-> "array", a |-> a]
Obj(o) == [k |-> "object", o |-> o]

EmptyArr == Arr(<<>>)
EmptyObj == Obj(<<>>)

IsNaN(v) == v = NaN
IsNullish(v) == v.k \in {"undefined", "null"}

\* typeof v
typeof(v) ==
  IF v.k \in {"null", "array", "object"} THEN "object" ELSE v.k

\* Array.isArray(v)
isArray(v) == v.k = "array"

\* ToBoolean: the truthiness used by if (...), !, &&, ||, ? :
Truthy(v) ==
  CASE v.k = "undefined" -> FALSE
    [] v.k = "null" -> FALSE
    [] v.k = "boolean" -> v.b
    [] v.k = "number" -> (~IsNaN(v)) /\ v.n # 0
    [] v.k = "string" -> v.s # ""
    [] OTHER -> TRUE

\* a ?? b
Coalesce(a, b) == IF IsNullish(a) THEN b ELSE a

\* a || b
OrElse(a, b) == IF Truthy(a) THEN a ELSE b

\* "key" in v (own keys of a plain object; the keys asked for are never
\* array indices or "length")
Has(v, key) == v.k = "object" /\ \E i \in 1..Len(v.o) : v.o[i][1] = key

\* v.key on a value that is not null or undefined (these raise, see the
\* callers); a primitive or an array has none of the keys the code reads
Get(v, key) ==
  IF Has(v, key)
  THEN v.o[CHOOSE i \in 1..Len(v.o) : v.o[i][1] = key][2]
  ELSE Undefined

\* obj.key = val: an existing key keeps its place, a new key is appended
Set(obj, key, val) ==
  IF Has(obj, key)
  THEN Obj([i \in 1..Len(obj.o) |->
              IF obj.o[i][1] = key THEN <<key, val>> ELSE obj.o[i]])
  ELSE Obj(Append(obj.o, <<key, val>>))

\* delete obj.key
Delete(obj, key) == Obj(SelectSeq(obj.o, LAMBDA p : p[1] # key))

RECURSIVE JoinStrings(_, _)
\* strs.join(sep) for a sequence of strings
JoinStrings(strs, sep) ==
  IF Len(strs) = 0 THEN ""
  ELSE IF Len(strs) = 1 THEN strs[1]
  ELSE strs[1] \o sep \o JoinStrings(Tail(strs), sep)

RECURSIVE String(_)
\* String(v)
String(v) ==
  CASE v.k = "undefined" -> "undefined"
    [] v.k = "null" -> "null"
    [] v.k = "boolean" -> (IF v.b THEN "true" ELSE "false")
    [] v.k = "number" -> (IF IsNaN(v) THEN "NaN" ELSE ToString(v.n))
    [] v.k = "string" -> v.s
    [] v.k = "array" ->
         JoinStrings([i \in 1..Len(v.a) |->
                        IF IsNullish(v.a[i]) THEN "" ELSE String(v.a[i])], ",")
    [] OTHER -> "[object Object]"

RECURSIVE JSONstringify(_)
\* JSON.stringify(v) for a value that is not undefined: an undefined array
\* element prints as null, an undefined-valued key is left out
JSONstringify(v) ==
  CASE v.k = "null" -> "null"
    [] v.k = "boolean" -> (IF v.b THEN "true" ELSE "false")
    [] v.k = "number" -> (IF IsNaN(v) THEN "null" ELSE ToString(v.n))
    [] v.k = "string" -> "\"" \o v.s \o "\""
    [] v.k = "array" ->
         "[" \o JoinStrings([i \in 1..Len(v.a) |->
                   IF v.a[i].k = "undefined" THEN "null"
                   ELSE JSONstringify(v.a[i])], ",") \o "]"
    [] v.k = "object" ->
         LET kept == SelectSeq(v.o, LAMBDA p : p[2].k # "undefined")
         IN "{" \o JoinStrings([i \in 1..Len(kept) |->
                   "\"" \o kept[i][1] \o "\":" \o JSONstringify(kept[i][2])],
                   ",") \o "}"
    [] OTHER -> "undefined"

MaxParsed == 20

\* parseInt(s, 10) and parseFloat(s) on the strings of the model: a decimal
\* integer literal parses to its value, every other string of the model
\* (none starts with a digit, a sign or white space) gives NaN
parseNumber(s) ==
  IF \E n \in 0..MaxParsed : ToString(n) = s
  THEN Num(CHOOSE n \in 0..MaxParsed : ToString(n) = s)
  ELSE NaN

(***************************************************************************)
(* Helpers (normalizeBlueprint.ts, lines 33-76)                            *)
(***************************************************************************)
\* "key" in obj && typeof obj.key === "string"
HasString(val, key) == Get(val, key).k = "string"

\* the display keys tried with title before label
toSafeStringTitleFirst(val) ==
  CASE IsNullish(val) -> ""
    [] val.k = "string" -> val.s
    [] val.k \in {"number", "boolean"} -> String(val)
    [] HasString(val, "title") -> Get(val, "title").s
    [] HasString(val, "label") -> Get(val, "label").s
    [] HasString(val, "name") -> Get(val, "name").s
    [] HasString(val, "text") -> Get(val, "text").s
    [] OTHER -> JSONstringify(val)

\* toSafeString(val), a string
toSafeString(val) ==
  CASE IsNullish(val) -> ""
    [] val.k = "string" -> val.s
    [] val.k \in {"number", "boolean"} -> String(val)
    [] HasString(val, "label") -> Get(val, "label").s
    [] HasString(val, "title") -> Get(val, "title").s
    [] HasString(val, "name") -> Get(val, "name").s
    [] HasString(val, "text") -> Get(val, "text").s
    [] OTHER -> JSONstringify(val)

\* toStringArray(val), an array of strings
toStringArray(val) ==
  IF ~isArray(val) THEN EmptyArr
  ELSE Arr([i \in 1..Len(val.a) |-> Str(toSafeString(val.a[i]))])

\* ensureArray(val), the sequence of the elements
ensureArray(val) ==
  IF isArray(val) THEN val.a
  ELSE IF IsNullish(val) THEN <<>>
  ELSE <<val>>

RECURSIVE sanitizeValue(_)
\* sanitizeValue(val): every JSON value is one of the first four cases
sanitizeValue(val) ==
  CASE IsNullish(val) -> val
    [] val.k \in {"string", "number", "boolean"} -> val
    [] val.k = "array" ->
         Arr([i \in 1..Len(val.a) |-> sanitizeValue(val.a[i])])
    [] OTHER ->
         Obj([i \in 1..Len(val.o) |->
                <<val.o[i][1], sanitizeValue(val.o[i][2])>>])

(***************************************************************************)
(* Per-component prop normalizers (lines 82-376).  Each works on the props *)
(* copy made by normalizeComponent and mutates it statement by statement;  *)
(* the model composes one step per statement.  The result names the props  *)
(* as they stand at the end, or at the point where the normalizer raised.  *)
(* No normalizer writes to the warning list or reads the section id.       *)
(***************************************************************************)
Ok(p) == [props |-> p, threw |-> FALSE, err |-> ""]
Threw(p, msg) == [props |-> p, threw |-> TRUE, err |-> msg]

\* seq.map(Op)
Map(seq, Op(_)) == [i \in 1..Len(seq) |-> Op(seq[i])]

\* validValues.includes(String(v))
Includes(validValues, v) == String(v) \in validValues

\* a ?? b ?? c and a ?? b ?? c ?? d
Coalesce3(a, b, c) == IF ~IsNullish(a) THEN a ELSE IF ~IsNullish(b) THEN b ELSE c
Coalesce4(a, b, c, d) == IF ~IsNullish(a) THEN a ELSE Coalesce3(b, c, d)

\* toSafeString(v) as a prop value
SafeStr(v) == Str(toSafeString(v))

\* v ? toSafeString(v) : undefined
StrOrUndefined(v) == IF Truthy(v) THEN SafeStr(v) ELSE Undefined

\* v ? toStringArray(v) : undefined
ArrOrUndefined(v) == IF Truthy(v) THEN toStringArray(v) ELSE Undefined

\* if (cond) props.key = val
SetIf(cond, props, key, val) == IF cond THEN Set(props, key, val) ELSE props

\* if (props.key && typeof props.key !== "string") props.key = toSafeString(props.key)
Stringified(props, key) ==
  SetIf(Truthy(Get(props, key)) /\ typeof(Get(props, key)) # "string",
        props, key, SafeStr(Get(props, key)))

\* if (!props.key || typeof props.key !== "string")
\*   props.key = toSafeString(props.key) || dflt
StringifiedOr(props, key, dflt) ==
  SetIf((~Truthy(Get(props, key))) \/ typeof(Get(props, key)) # "string",
        props, key, OrElse(SafeStr(Get(props, key)), Str(dflt)))

\* if (!props.key && props.alias) { props.key = toSafeString(props.alias); delete props.alias; }
Renamed(props, key, alias) ==
  IF (~Truthy(Get(props, key))) /\ Truthy(Get(props, alias))
  THEN Delete(Set(props, key, SafeStr(Get(props, alias))), alias)
  ELSE props

\* lines 84-103
NavigationBar(props) ==
  LET Links(p) ==
        Set(p, "links", toStringArray(Coalesce4(Get(p, "links"), Get(p, "items"),
                                                Get(p, "navItems"), EmptyArr)))
      \* toSafeString(obj.label ?? obj)
      LabelOf(obj) == SafeStr(Coalesce(Get(obj, "label"), obj))
      CtaLabel(p) ==
        SetIf(Truthy(Get(p, "ctaLabel")) /\ typeof(Get(p, "ctaLabel")) = "object",
              p, "ctaLabel", LabelOf(Get(p, "ctaLabel")))
      Cta(p) ==
        IF Truthy(Get(p, "cta")) /\ typeof(Get(p, "cta")) = "object"
           /\ ~Truthy(Get(p, "ctaLabel"))
        THEN Delete(Set(p, "ctaLabel", LabelOf(Get(p, "cta"))), "cta")
        ELSE p
  IN Ok(Cta(CtaLabel(StringifiedOr(Links(props), "brand", "App"))))

\* lines 105-115
HeroSection(props) ==
  LET Headline(p) ==
        SetIf(~Truthy(Get(p, "headline")), p, "headline",
              Coalesce3(Get(p, "title"), Get(p, "heading"), Str("Welcome")))
      GetStarted(p) ==
        SetIf((~Truthy(Get(p, "primaryCta"))) /\ Truthy(Get(p, "ctaHref")),
              p, "primaryCta", Str("Get Started"))
  IN Ok(GetStarted(Renamed(Renamed(Headline(Stringified(Stringified(props,
          "headline"), "subheading")), "subheading", "subheadline"),
          "primaryCta", "ctaLabel")))

\* lines 119-130
FeatureGridFeature(f) ==
  IF typeof(f) = "string"
    THEN Obj(<< <<"title", f>>, <<"description", Str("")>> >>)
  ELSE IF typeof(f) = "object" /\ f # Null
    THEN Obj(<< <<"icon", SafeStr(Coalesce(Get(f, "icon"), Str("")))>>,
                <<"title", SafeStr(Coalesce3(Get(f, "title"), Get(f, "name"),
                                             Str("Feature")))>>,
                <<"description", SafeStr(Coalesce3(Get(f, "description"),
                                             Get(f, "desc"), Str("")))>> >>)
  ELSE Obj(<< <<"title", SafeStr(f)>>, <<"description", Str("")>> >>)

\* lines 117-135
FeatureGrid(props) ==
  LET Features(p) ==
        Set(p, "features", Arr(Map(ensureArray(Get(p, "features")),
                                   FeatureGridFeature)))
      Columns(p) ==
        SetIf(Truthy(Get(p, "columns")) /\ typeof(Get(p, "columns")) # "number",
              p, "columns", OrElse(parseNumber(String(Get(p, "columns"))), Num(3)))
  IN Ok(Columns(Features(props)))

\* lines 140-151
PricingTableTier(t) ==
  IF typeof(t) # "object" \/ t = Null
    THEN Obj(<< <<"name", Str("Plan")>>, <<"price", Str("$0")>>,
                <<"features", EmptyArr>> >>)
  ELSE Obj(<< <<"name", SafeStr(Coalesce(Get(t, "name"), Str("Plan")))>>,
              <<"price", SafeStr(Coalesce(Get(t, "price"), Str("$0")))>>,
              <<"period", StrOrUndefined(Get(t, "period"))>>,
              <<"features", toStringArray(Coalesce(Get(t, "features"), EmptyArr))>>,
              <<"highlighted", Bool(Get(t, "highlighted") = Bool(TRUE))>>,
              <<"ctaLabel", StrOrUndefined(OrElse(Get(t, "ctaLabel"),
                                                  Get(t, "cta")))>> >>)

\* lines 137-154
PricingTable(props) ==
  Ok(Delete(Set(props, "tiers",
       Arr(Map(ensureArray(Coalesce3(Get(props, "tiers"), Get(props, "plans"),
                                     EmptyArr)), PricingTableTier))), "plans"))

\* validTypes.includes(String(v)) ? String(v) : dflt
EnumOr(validTypes, v, dflt) ==
  IF Includes(validTypes, v) THEN String(v) ELSE dflt

\* lines 158-171
FormBuilderField(f) ==
  IF typeof(f) # "object" \/ f = Null
    THEN Obj(<< <<"name", Str("field")>>, <<"label", SafeStr(f)>>,
                <<"type", Str("text")>> >>)
  ELSE Obj(<< <<"name", SafeStr(Coalesce3(Get(f, "name"), Get(f, "label"),
                                          Str("field")))>>,
              <<"label", SafeStr(Coalesce3(Get(f, "label"), Get(f, "name"),
                                           Str("Field")))>>,
              <<"type", Str(EnumOr({"text", "email", "number", "textarea",
                                    "select", "checkbox"}, Get(f, "type"), "text"))>>,
              <<"placeholder", StrOrUndefined(Get(f, "placeholder"))>>,
              <<"options", ArrOrUndefined(Get(f, "options"))>>,
              <<"required", Bool(Get(f, "required") = Bool(TRUE))>> >>)

\* lines 156-174
FormBuilder(props) ==
  Ok(Stringified(Set(props, "fields",
       Arr(Map(ensureArray(Coalesce(Get(props, "fields"), EmptyArr)),
               FormBuilderField))), "submitLabel"))

\* Object.entries(v) of an object or an array (whose keys are its indices)
Entries(v) ==
  IF isArray(v) THEN [i \in 1..Len(v.a) |-> <<ToString(i - 1), v.a[i]>>]
  ELSE v.o

\* lines 179-186
DataTableColumn(c) ==
  IF typeof(c) = "string" THEN c
  ELSE IF typeof(c) = "object" /\ c # Null
    THEN SafeStr(Coalesce4(Get(c, "label"), Get(c, "key"), Get(c, "name"), c))
  ELSE SafeStr(c)

\* lines 193-196
DataTableCell(entry) ==
  <<entry[1], IF typeof(entry[2]) = "number" THEN entry[2] ELSE SafeStr(entry[2])>>

\* lines 189-198
DataTableRow(r) ==
  IF typeof(r) # "object" \/ r = Null THEN EmptyObj
  ELSE Obj(Map(Entries(r), DataTableCell))

\* lines 176-201
DataTable(props) ==
  LET Columns(p) ==
        Set(p, "columns", Arr(Map(ensureArray(Coalesce(Get(p, "columns"),
                                     EmptyArr)), DataTableColumn)))
      Rows(p) ==
        Set(p, "rows", Arr(Map(ensureArray(Coalesce3(Get(p, "rows"),
                                  Get(p, "data"), EmptyArr)), DataTableRow)))
  IN Ok(Delete(Rows(Columns(props)), "data"))

\* toStringArray(tags).join(", ")
JoinedTags(tags) ==
  Str(JoinStrings(Map(toStringArray(tags).a, LAMBDA e : e.s), ", "))

\* lines 205-218
CardListCard(c) ==
  IF typeof(c) = "string" THEN Obj(<< <<"title", c>> >>)
  ELSE IF typeof(c) # "object" \/ c = Null
    THEN Obj(<< <<"title", SafeStr(c)>> >>)
  ELSE Obj(<< <<"title", SafeStr(Coalesce3(Get(c, "title"), Get(c, "name"),
                                           Str("Card")))>>,
              <<"description", StrOrUndefined(Get(c, "description"))>>,
              <<"badge", StrOrUndefined(Get(c, "badge"))>>,
              <<"imageUrl", StrOrUndefined(Get(c, "imageUrl"))>>,
              <<"metadata", IF Truthy(Get(c, "tags")) THEN JoinedTags(Get(c, "tags"))
                            ELSE StrOrUndefined(Get(c, "metadata"))>> >>)

\* lines 203-226
CardList(props) ==
  LET Cards(p) ==
        Set(p, "cards", Arr(Map(ensureArray(Coalesce3(Get(p, "cards"),
                                   Get(p, "items"), EmptyArr)), CardListCard)))
      Layout(p) ==
        SetIf(Truthy(Get(p, "layout"))
                /\ ~Includes({"vertical", "horizontal", "grid"}, Get(p, "layout")),
              p, "layout", Str("vertical"))
  IN Ok(Layout(Delete(Cards(props), "items")))

\* typeof v === "number" ? v : parseFloat(String(v)) || 0
NumberOrZero(v) ==
  IF typeof(v) = "number" THEN v ELSE OrElse(parseNumber(String(v)), Num(0))

\* lines 230-237
ChartViewPoint(d) ==
  IF typeof(d) # "object" \/ d = Null
    THEN Obj(<< <<"label", SafeStr(d)>>, <<"value", Num(0)>> >>)
  ELSE Obj(<< <<"label", SafeStr(Coalesce3(Get(d, "label"), Get(d, "name"),
                                           Str("")))>>,
              <<"value", NumberOrZero(Get(d, "value"))>> >>)

\* values[i], undefined past the end
At(values, i) == IF i <= Len(values) THEN values[i] ELSE Undefined

\* lines 250-253: labels.map((label, i) => ({label, value: ...}))
ChartViewFromLabels(labels, values) ==
  Arr([i \in 1..Len(labels) |->
         Obj(<< <<"label", labels[i]>>,
                <<"value", NumberOrZero(At(values, i))>> >>)])

\* lines 243-258, where props.data is the array just written at line 230
ChartViewDatasets(p) ==
  IF Len(Get(p, "data").a) = 0 /\ Truthy(Get(p, "labels"))
     /\ Truthy(Get(p, "datasets"))
  THEN LET ds == ensureArray(Get(p, "datasets"))
       IN IF Len(ds) = 0 THEN Ok(Delete(Delete(p, "labels"), "datasets"))
          ELSE IF IsNullish(ds[1])
            \* first.data with first null
            THEN Threw(p, "TypeError: Cannot read properties of null (reading 'data')")
          ELSE Ok(Delete(Delete(Set(p, "data",
                    ChartViewFromLabels(toStringArray(Get(p, "labels")).a,
                       ensureArray(Coalesce(Get(ds[1], "data"), EmptyArr)))),
                    "labels"), "datasets"))
  ELSE Ok(p)

\* lines 228-260
ChartView(props) ==
  LET Data(p) ==
        Set(p, "data", Arr(Map(ensureArray(Coalesce(Get(p, "data"), EmptyArr)),
                               ChartViewPoint)))
      ChartType(p) ==
        IF Truthy(Get(p, "chartType")) /\ ~Truthy(Get(p, "type"))
        THEN Delete(Set(p, "type", Get(p, "chartType")), "chartType")
        ELSE p
      Type(p) ==
        SetIf(Truthy(Get(p, "type"))
                /\ ~Includes({"bar", "line", "pie"}, Get(p, "type")),
              p, "type", Str("bar"))
  IN ChartViewDatasets(Type(ChartType(Data(props))))

RECURSIVE ConcatAll(_)
\* the concatenation of a sequence of sequences
ConcatAll(seqs) ==
  IF Len(seqs) = 0 THEN <<>> ELSE Head(seqs) \o ConcatAll(Tail(seqs))

\* lines 285-286 and 291: the value of a setting
SettingValue(value) ==
  IF value = Undefined THEN Undefined
  ELSE IF typeof(value) = "boolean" THEN value
  ELSE SafeStr(value)

\* lines 280-294
SettingsPanelSetting(s) ==
  IF typeof(s) # "object" \/ s = Null
    THEN Obj(<< <<"label", SafeStr(s)>>, <<"type", Str("text")>> >>)
  ELSE Obj(<< <<"label", SafeStr(Coalesce3(Get(s, "label"), Get(s, "key"),
                                           Str("Setting")))>>,
              <<"description", StrOrUndefined(Get(s, "description"))>>,
              <<"type", Str(EnumOr({"toggle", "text", "select"}, Get(s, "type"),
                                   "text"))>>,
              <<"value", SettingValue(Get(s, "value"))>>,
              <<"options", ArrOrUndefined(Get(s, "options"))>> >>)

\* lines 268-272: the settings of one element of props.sections
SettingsPanelItems(sec) ==
  IF typeof(sec) = "object" /\ sec # Null
  THEN ensureArray(Coalesce3(Get(sec, "settings"), Get(sec, "items"), EmptyArr))
  ELSE <<>>

\* lines 264-278
SettingsPanelFlatten(p, flat) ==
  IF Truthy(Get(p, "sections")) /\ (~Truthy(Get(p, "settings"))) /\ Len(flat) > 0
  THEN Delete(Set(p, "settings", Arr(flat)), "sections")
  ELSE p

\* lines 262-296
SettingsPanel(props) ==
  LET Settings(p) ==
        Set(p, "settings", Arr(Map(ensureArray(Coalesce(Get(p, "settings"),
                                      EmptyArr)), SettingsPanelSetting)))
  IN Ok(Settings(SettingsPanelFlatten(props,
          ConcatAll(Map(ensureArray(Get(props, "sections")), SettingsPanelItems)))))

\* lines 300-310
StatsRowStat(s) ==
  IF typeof(s) # "object" \/ s = Null
    THEN Obj(<< <<"label", SafeStr(s)>>, <<"value", Str("0")>> >>)
  ELSE Obj(<< <<"label", SafeStr(Coalesce3(Get(s, "label"), Get(s, "name"),
                                           Str("Stat")))>>,
              <<"value", SafeStr(Coalesce(Get(s, "value"), Str("0")))>>,
              <<"change", StrOrUndefined(Get(s, "change"))>>,
              <<"trend", IF Includes({"up", "down", "neutral"}, Get(s, "trend"))
                           THEN Str(String(Get(s, "trend"))) ELSE Undefined>> >>)

\* lines 298-312
StatsRow(props) ==
  Ok(Set(props, "stats",
         Arr(Map(ensureArray(Coalesce(Get(props, "stats"), EmptyArr)),
                 StatsRowStat))))

\* line 324: `${toSafeString(s.label)}: ${toSafeString(s.value)}`, s not null
StatText(st) == toSafeString(Get(st, "label")) \o ": " \o toSafeString(Get(st, "value"))

\* lines 322-328
UserProfileStats(p) ==
  IF Truthy(Get(p, "stats")) /\ isArray(Get(p, "stats"))
  THEN IF \E i \in 1..Len(Get(p, "stats").a) : IsNullish(Get(p, "stats").a[i])
         \* s.label with s null
         THEN Threw(p, "TypeError: Cannot read properties of null (reading 'label')")
       ELSE Ok(Delete(SetIf(~Truthy(Get(p, "bio")), p, "bio",
                 Str(JoinStrings(Map(Get(p, "stats").a, StatText), " * "))),
               "stats"))
  ELSE Ok(p)

\* lines 314-330
UserProfile(props) ==
  UserProfileStats(Renamed(Stringified(Stringified(Stringified(
     StringifiedOr(props, "name", "User"), "email"), "bio"), "role"),
     "avatarUrl", "avatar"))

\* lines 334-341
SidebarSection(s) ==
  IF typeof(s) # "object" \/ s = Null
    THEN Obj(<< <<"items", Arr(<<SafeStr(s)>>)>> >>)
  ELSE Obj(<< <<"heading", StrOrUndefined(OrElse(Get(s, "heading"),
                                                 Get(s, "title")))>>,
              <<"items", toStringArray(Coalesce3(Get(s, "items"), Get(s, "links"),
                                                 EmptyArr))>> >>)

\* lines 332-345
Sidebar(props) ==
  Ok(Stringified(Set(props, "sections",
       Arr(Map(ensureArray(Coalesce(Get(props, "sections"), EmptyArr)),
               SidebarSection))), "brand"))

\* lines 350-357
FooterColumn(c) ==
  IF typeof(c) # "object" \/ c = Null
    THEN Obj(<< <<"heading", SafeStr(c)>>, <<"links", EmptyArr>> >>)
  ELSE Obj(<< <<"heading", SafeStr(Coalesce4(Get(c, "heading"), Get(c, "title"),
                                             Get(c, "name"), Str("Links")))>>,
              <<"links", toStringArray(Coalesce3(Get(c, "links"), Get(c, "items"),
                                                 EmptyArr))>> >>)

\* lines 347-361
Footer(props) ==
  Ok(Stringified(Stringified(Set(props, "columns",
       Arr(Map(ensureArray(Coalesce(Get(props, "columns"), EmptyArr)),
               FooterColumn))), "brand"), "copyright"))

\* lines 363-368
AppShell(props) ==
  LET SidebarItems(p) ==
        SetIf(Truthy(Get(p, "sidebarItems")), p, "sidebarItems",
              toStringArray(Get(p, "sidebarItems")))
  IN Ok(SidebarItems(Stringified(StringifiedOr(props, "appName", "App"),
                                 "tagline")))

\* lines 370-375
EmptyState(props) ==
  Ok(Stringified(Stringified(StringifiedOr(props, "title", "Nothing here yet"),
                             "description"), "icon"))

\* the keys of propNormalizers
NormalizerNames ==
  {"NavigationBar", "HeroSection", "FeatureGrid", "PricingTable", "FormBuilder",
   "DataTable", "CardList", "ChartView", "SettingsPanel", "StatsRow",
   "UserProfile", "Sidebar", "Footer", "AppShell", "EmptyState"}

\* propNormalizers[name](props, warnings, sectionId), and the props as they
\* are when there is no normalizer of that name
propNormalizers(name, props) ==
  CASE name = "NavigationBar" -> NavigationBar(props)
    [] name = "HeroSection" -> HeroSection(props)
    [] name = "FeatureGrid" -> FeatureGrid(props)
    [] name = "PricingTable" -> PricingTable(props)
    [] name = "FormBuilder" -> FormBuilder(props)
    [] name = "DataTable" -> DataTable(props)
    [] name = "CardList" -> CardList(props)
    [] name = "ChartView" -> ChartView(props)
    [] name = "SettingsPanel" -> SettingsPanel(props)
    [] name = "StatsRow" -> StatsRow(props)
    [] name = "UserProfile" -> UserProfile(props)
    [] name = "Sidebar" -> Sidebar(props)
    [] name = "Footer" -> Footer(props)
    [] name = "AppShell" -> AppShell(props)
    [] name = "EmptyState" -> EmptyState(props)
    [] OTHER -> Ok(props)

(***************************************************************************)
(* The component registry (src/src/registry/index.ts)                      *)
(***************************************************************************)
\* the names of componentRegistry, the keys of registryMap
registryMap ==
  {"AppShell", "NavigationBar", "HeroSection", "FeatureGrid", "PricingTable",
   "FormBuilder", "DataTable", "CardList", "ChartView", "SettingsPanel",
   "EmptyState", "StatsRow", "UserProfile", "Sidebar", "Footer"}

(***************************************************************************)
(* Warnings: sectionId and componentName are strings or undefined          *)
(***************************************************************************)
Warning(type, sectionId, componentName, detail) ==
  [type |-> type, sectionId |-> sectionId, componentName |-> componentName,
   detail |-> detail]

(***************************************************************************)
(* normalizeComponent (lines 380-424): the component or null, and the      *)
(* warnings it pushed                                                      *)
(***************************************************************************)
\* the name read at line 385
ComponentName(comp) ==
  String(Coalesce4(Get(comp, "componentName"), Get(comp, "component"),
                   Get(comp, "type"), Str("")))

\* the raw props with the name keys left among the sibling keys
RawPropsWithName(comp) ==
  IF Truthy(Get(comp, "props")) /\ typeof(Get(comp, "props")) = "object"
     /\ ~isArray(Get(comp, "props"))
  THEN Get(comp, "props")
  ELSE comp

\* the raw props of lines 398-408
RawProps(comp) ==
  IF Truthy(Get(comp, "props")) /\ typeof(Get(comp, "props")) = "object"
     /\ ~isArray(Get(comp, "props"))
  THEN Get(comp, "props")
  ELSE Delete(Delete(Delete(comp, "componentName"), "component"), "type")

\* a lookup that accepts every non-empty name
KnownAnyName(name) == name # ""

\* registryMap.has(name), line 393
KnownComponent(name) == name \in registryMap

\* the warning pushed at line 388
NoNameWarning(sectionId) ==
  Warning("dropped-component", Str(sectionId), Str("(empty)"),
          "Component has no name")

\* an unknown name reported the way a missing name is
UnknownAsNoName(sectionId, name) == NoNameWarning(sectionId)

\* the warning pushed at line 394
UnknownComponentWarning(sectionId, name) ==
  Warning("dropped-component", Str(sectionId), Str(name),
          "Unknown component \"" \o name \o "\" - not in registry")

\* a catch that records nothing
NormalizedSilently(name, sectionId, r) ==
  [component |-> [k |-> "object",
                  o |-> << <<"componentName", [k |-> "string", s |-> name]>>,
                           <<"props", sanitizeValue(r.props)>> >>],
   warnings |-> <<>>]

\* lines 413-423: the catch, the final sanitize and the component returned
NormalizedComponent(name, sectionId, r) ==
  [component |-> Obj(<< <<"componentName", Str(name)>>,
                        <<"props", sanitizeValue(r.props)>> >>),
   warnings |-> IF r.threw
                THEN <<Warning("fixed-prop", Str(sectionId), Str(name),
                               "Normalizer error: " \o r.err)>>
                ELSE <<>>]

\* lines 385-396: the component is dropped
DroppedComponent(name, sectionId) ==
  [component |-> Null,
   warnings |-> IF name = "" THEN <<NoNameWarning(sectionId)>>
                ELSE <<UnknownComponentWarning(sectionId, name)>>]

\* normalizeComponent once the name is read
NormalizeNamed(name, comp, sectionId) ==
  IF name = "" \/ ~KnownComponent(name) THEN DroppedComponent(name, sectionId)
  ELSE NormalizedComponent(name, sectionId, propNormalizers(name, RawProps(comp)))

normalizeComponent(comp, sectionId) ==
  NormalizeNamed(ComponentName(comp), comp, sectionId)

(***************************************************************************)
(* normalizeSection (lines 428-450): the section or null, and the warnings *)
(***************************************************************************)
\* typeof v !== "object" || v === null: the elements both loops skip
Skipped(v) == typeof(v) # "object" \/ v = Null

\* the component, if any, goes behind the rest
PushComponentBehind(n, rest) ==
  [components |-> rest.components
                    \o (IF n.component # Null THEN <<n.component>> ELSE <<>>),
   warnings |-> n.warnings \o rest.warnings]

\* lines 440-441: the component, if any, and its warnings go before the rest
PushComponent(n, rest) ==
  [components |-> (IF n.component # Null THEN <<n.component>> ELSE <<>>)
                    \o rest.components,
   warnings |-> n.warnings \o rest.warnings]

RECURSIVE NormalizeComponents(_, _)
\* the loop of lines 437-442 over the raw components
NormalizeComponents(rawComps, id) ==
  IF Len(rawComps) = 0 THEN [components |-> <<>>, warnings |-> <<>>]
  ELSE IF Skipped(Head(rawComps)) THEN NormalizeComponents(Tail(rawComps), id)
  ELSE PushComponent(normalizeComponent(Head(rawComps), id),
                     NormalizeComponents(Tail(rawComps), id))

\* the id read at line 433
SectionId(rawSec, idx) ==
  String(Coalesce(Get(rawSec, "id"), Str("section-" \o ToString(idx))))

\* a length test that no list passes
SectionNeverEmpty(components) == Len(components) < 0

\* components.length === 0, line 444
SectionIsEmpty(components) == Len(components) = 0

\* the warning pushed at line 445
InvalidSectionWarning(id) ==
  Warning("invalid-section", Str(id), Undefined,
          "Section \"" \o id \o "\" has no valid components - dropped")

\* lines 444-449
SectionOf(id, heading, loop) ==
  IF SectionIsEmpty(loop.components)
  THEN [section |-> Null,
        warnings |-> Append(loop.warnings, InvalidSectionWarning(id))]
  ELSE [section |-> Obj(<< <<"id", Str(id)>>, <<"heading", heading>>,
                           <<"components", Arr(loop.components)>> >>),
        warnings |-> loop.warnings]

\* normalizeSection once the id is read
NormalizeIdentified(id, rawSec) ==
  SectionOf(id, StrOrUndefined(Get(rawSec, "heading")),
            NormalizeComponents(ensureArray(Coalesce(Get(rawSec, "components"),
                                                     EmptyArr)), id))

normalizeSection(rawSec, idx) == NormalizeIdentified(SectionId(rawSec, idx), rawSec)

(***************************************************************************)
(* normalizeBlueprint (lines 454-521)                                      *)
(***************************************************************************)
\* line 470: the section, if any, and its warnings go before the rest
PushSection(n, rest) ==
  [sections |-> (IF n.section # Null THEN <<n.section>> ELSE <<>>) \o rest.sections,
   warnings |-> n.warnings \o rest.warnings]

RECURSIVE NormalizeSections(_, _)
\* the loop of lines 466-471 over rawSections[i..], i counted from 0
NormalizeSections(rawSections, i) ==
  IF Len(rawSections) = 0 THEN [sections |-> <<>>, warnings |-> <<>>]
  ELSE IF Skipped(Head(rawSections)) THEN NormalizeSections(Tail(rawSections), i + 1)
  ELSE PushSection(normalizeSection(Head(rawSections), i),
                   NormalizeSections(Tail(rawSections), i + 1))

\* the section pushed at lines 476-487
FallbackSection ==
  Obj(<< <<"id", Str("fallback")>>,
         <<"heading", Str("Blueprint Generation")>>,
         <<"components", Arr(<<
            Obj(<< <<"componentName", Str("EmptyState")>>,
                   <<"props", Obj(<<
                      <<"icon", Str("wrench")>>,
                      <<"title", Str("Couldn't render this blueprint")>>,
                      <<"description", Str("The AI generated a response, but no known components could be extracted. Try rephrasing your request.")>> >>)>> >>) >>)>> >>)

\* a fallback warning that carries the fallback section's id
FallbackWarningWithId ==
  [type |-> "invalid-section", sectionId |-> [k |-> "string", s |-> "fallback"],
   componentName |-> [k |-> "undefined"],
   detail |-> "No valid sections found - adding fallback empty state"]

\* the warning pushed at line 475
FallbackWarning ==
  Warning("invalid-section", Undefined, Undefined,
          "No valid sections found - adding fallback empty state")

\* one element of a componentRationale list (lines 498-501); r is not null
RationalePair(r) ==
  Obj(<< <<"sectionId", SafeStr(Coalesce3(Get(r, "sectionId"), Get(r, "section"),
                                          Str("")))>>,
         <<"rationale", SafeStr(Coalesce3(Get(r, "rationale"), Get(r, "reason"),
                                          Str("")))>> >>)

\* one entry of a componentRationale mapping (lines 503-505)
RationaleEntry(entry) == <<entry[1], SafeStr(entry[2])>>

\* a pair of a componentRationale list as the entry of a mapping
PairAsEntry(r) ==
  <<Get(RationalePair(r), "sectionId").s, Get(RationalePair(r), "rationale")>>

\* either form brought to a mapping of section id to rationale
RationaleAsMapping(cr) ==
  IF typeof(cr) = "object" /\ cr # Null
  THEN (IF isArray(cr) THEN Obj(Map(cr.a, PairAsEntry))
        ELSE Obj(Map(cr.o, RationaleEntry)))
  ELSE EmptyObj

\* lines 496-507
ComponentRationale(cr) ==
  IF typeof(cr) = "object" /\ cr # Null
  THEN (IF isArray(cr) THEN Arr(Map(cr.a, RationalePair))
        ELSE Obj(Map(cr.o, RationaleEntry)))
  ELSE EmptyObj

\* r.sectionId raises on a null element of a componentRationale list, and no
\* try encloses it
RationaleRaises(cr) == isArray(cr) /\ \E i \in 1..Len(cr.a) : IsNullish(cr.a[i])

\* lines 491-510: the explanation of the blueprint, or the exception
normalizeExplanation(explanation) ==
  IF Truthy(explanation) /\ typeof(explanation) = "object"
  THEN IF RationaleRaises(Get(explanation, "componentRationale"))
       THEN [threw |-> TRUE, value |-> Undefined]
       ELSE [threw |-> FALSE, value |-> Obj(<<
              <<"reasoning", SafeStr(Coalesce(Get(explanation, "reasoning"),
                                              Str("")))>>,
              <<"componentRationale",
                ComponentRationale(Get(explanation, "componentRationale"))>>,
              <<"suggestedImprovements",
                toStringArray(Coalesce3(Get(explanation, "suggestedImprovements"),
                                        Get(explanation, "suggestions"),
                                        EmptyArr))>> >>)]
  ELSE [threw |-> FALSE, value |-> explanation]

\* a length test that no list passes
NeverNoSections(sections) == Len(sections) < 0

\* sections.length === 0, line 474
NoValidSections(sections) == Len(sections) = 0

\* lines 474-488
WithFallback(loop) ==
  IF NoValidSections(loop.sections)
  THEN [sections |-> <<FallbackSection>>,
        warnings |-> Append(loop.warnings, FallbackWarning)]
  ELSE loop

\* the four layouts and a fifth
layoutOptionsAndGrid ==
  {"single-page", "sidebar-detail", "multi-section", "dashboard", "grid"}

layoutOptions == {"single-page", "sidebar-detail", "multi-section", "dashboard"}

\* what the caller of normalizeBlueprint gets when it raises
Raised(rawDoc) ==
  [threw |-> TRUE, blueprint |-> Undefined, warnings |-> <<>>, rawInput |-> rawDoc]

\* lines 512-520
Assemble(rawDoc, appType, layout, loop, explanation, styleHints) ==
  IF explanation.threw THEN Raised(rawDoc)
  ELSE [threw |-> FALSE,
        blueprint |-> Obj(<< <<"appType", Str(appType)>>,
                             <<"layout", Str(layout)>>,
                             <<"sections", Arr(loop.sections)>>,
                             <<"explanation", explanation.value>>,
                             <<"styleHints", styleHints>> >>),
        warnings |-> loop.warnings,
        rawInput |-> rawDoc]

normalizeBlueprint(rawDoc) ==
  IF IsNullish(rawDoc)
  \* raw.appType with raw null
  THEN Raised(rawDoc)
  ELSE Assemble(rawDoc,
         toSafeString(Coalesce4(Get(rawDoc, "appType"), Get(rawDoc, "app_type"),
                                Get(rawDoc, "type"), Str("app"))),
         EnumOr(layoutOptions, Get(rawDoc, "layout"), "single-page"),
         WithFallback(NormalizeSections(
            ensureArray(Coalesce(Get(rawDoc, "sections"), EmptyArr)), 0)),
         normalizeExplanation(Get(rawDoc, "explanation")),
         IF Truthy(Get(rawDoc, "styleHints"))
         THEN sanitizeValue(Get(rawDoc, "styleHints")) ELSE Undefined)

(***************************************************************************)
(* What the call leaves in the document it was handed.  A normalizer       *)
(* assigns and deletes top-level keys of the props object it receives and  *)
(* builds every nested value anew (map, a fresh flat list); sanitizeValue  *)
(* returns new objects.  So the only object of the caller a write could    *)
(* reach is the one the props were taken from.                             *)
(***************************************************************************)
\* props taken without a copy: writes reach the object itself
Alias(obj) == [shared |-> TRUE, value |-> obj]

\* { ...obj } (lines 401 and 404): a new object, writes to it do not reach obj
Spread(obj) == [shared |-> FALSE, value |-> obj]

\* comp.props && typeof comp.props === "object" && !Array.isArray(comp.props)
HasPropsObject(comp) ==
  Truthy(Get(comp, "props")) /\ typeof(Get(comp, "props")) = "object"
  /\ ~isArray(Get(comp, "props"))

\* the raw component once the normalizer has written props
WrittenThrough(comp, props) ==
  IF HasPropsObject(comp)
  THEN (IF Spread(Get(comp, "props")).shared THEN Set(comp, "props", props)
        ELSE comp)
  ELSE (IF Spread(comp).shared THEN props ELSE comp)

\* a raw component after normalizeComponent(comp, ...)
ComponentAfter(comp) ==
  IF ComponentName(comp) = "" \/ ~KnownComponent(ComponentName(comp)) THEN comp
  ELSE WrittenThrough(comp, propNormalizers(ComponentName(comp),
                                            RawProps(comp)).props)

\* raw.components after the loop of lines 437-442
ComponentsAfter(v) ==
  IF isArray(v)
  THEN Arr([i \in 1..Len(v.a) |->
              IF Skipped(v.a[i]) THEN v.a[i] ELSE ComponentAfter(v.a[i])])
  ELSE IF Skipped(v) THEN v
  ELSE ComponentAfter(v)

\* a raw section after normalizeSection(rawSec, ...)
SectionAfter(rawSec) ==
  IF Has(rawSec, "components")
  THEN Set(rawSec, "components", ComponentsAfter(Get(rawSec, "components")))
  ELSE rawSec

\* raw.sections after the loop of lines 466-471
SectionsAfter(v) ==
  IF isArray(v)
  THEN Arr([i \in 1..Len(v.a) |->
              IF Skipped(v.a[i]) THEN v.a[i] ELSE SectionAfter(v.a[i])])
  ELSE IF Skipped(v) THEN v
  ELSE SectionAfter(v)

\* the document after normalizeBlueprint(rawDoc), returned or raised
DocumentAfter(rawDoc) ==
  IF Has(rawDoc, "sections")
  THEN Set(rawDoc, "sections", SectionsAfter(Get(rawDoc, "sections")))
  ELSE rawDoc

(***************************************************************************)
(* The raw documents the model normalizes.  Any JSON value may reach       *)
(* normalizeBlueprint; the families below cover the shapes the code        *)
(* branches on.                                                            *)
(***************************************************************************)
MaxSections == 2
MaxComps == 2

\* the sequences over S of length at most n
SeqUpTo(n, S) == UNION {[1..m -> S] : m \in 0..n}

LabelObj == Obj(<< <<"label", Str("Buy")>>, <<"href", Str("/x")>> >>)
HrefObj == Obj(<< <<"href", Str("/x")>> >>)
JoinObj == Obj(<< <<"label", Str("Join")>>, <<"href", Str("/join")>> >>)
HomeAbout == Arr(<<Str("Home"), Str("About")>>)

Component(name, props) ==
  Obj(<< <<"componentName", Str(name)>>, <<"props", props>> >>)

Document(sections) == Obj(<< <<"sections", Arr(sections)>> >>)

MainSection(comps) ==
  Obj(<< <<"id", Str("main")>>, <<"components", Arr(comps)>> >>)

SingleComponentDoc(comp) == Document(<<MainSection(<<comp>>)>>)

ValidHero == Component("HeroSection", Obj(<< <<"headline", Str("Hello")>> >>))
MagicWidget == Component("MagicWidget", EmptyObj)

\* the props of each registry entry that its schema declares z.string()
\* (src/src/registry/index.ts, lines 47-232)
TextProps(name) ==
  CASE name = "AppShell" -> {"appName", "tagline", "accentColor"}
    [] name = "NavigationBar" -> {"brand", "ctaLabel", "accentColor"}
    [] name = "HeroSection" ->
         {"headline", "subheading", "primaryCta", "secondaryCta", "accentColor"}
    [] name = "FeatureGrid" -> {"heading", "accentColor"}
    [] name = "PricingTable" -> {"heading", "accentColor"}
    [] name = "FormBuilder" -> {"title", "description", "submitLabel", "accentColor"}
    [] name = "DataTable" -> {"title", "accentColor"}
    [] name = "CardList" -> {"heading", "accentColor"}
    [] name = "ChartView" -> {"title", "accentColor"}
    [] name = "SettingsPanel" -> {"title", "accentColor"}
    [] name = "EmptyState" ->
         {"icon", "title", "description", "ctaLabel", "accentColor"}
    [] name = "StatsRow" -> {"accentColor"}
    [] name = "UserProfile" ->
         {"name", "email", "avatarUrl", "bio", "role", "accentColor"}
    [] name = "Sidebar" -> {"brand", "accentColor"}
    [] name = "Footer" -> {"brand", "copyright", "accentColor"}
    [] OTHER -> {}

\* the alias keys the normalizers read for a text prop
AliasProps(name) ==
  CASE name = "NavigationBar" -> {"cta"}
    [] name = "HeroSection" -> {"title", "heading", "subheadline", "ctaLabel", "ctaHref"}
    [] name = "UserProfile" -> {"avatar"}
    [] OTHER -> {}

TextValues ==
  {LabelObj, HrefObj, Str("Hi"), Str(""), Num(5), Bool(FALSE), Null,
   Arr(<<Str("a")>>)}

\* one component, one text prop (or alias), each kind of value
TextPropInputs ==
  UNION {{SingleComponentDoc(Component(n, Obj(<< <<p, v>> >>))) :
            p \in TextProps(n) \cup AliasProps(n), v \in TextValues} :
         n \in registryMap}

\* the props whose elements the normalizers map
ListProps(name) ==
  CASE name = "AppShell" -> {"sidebarItems"}
    [] name = "NavigationBar" -> {"links", "items", "navItems"}
    [] name = "FeatureGrid" -> {"features"}
    [] name = "PricingTable" -> {"tiers", "plans"}
    [] name = "FormBuilder" -> {"fields"}
    [] name = "DataTable" -> {"columns", "rows", "data"}
    [] name = "CardList" -> {"cards", "items"}
    [] name = "ChartView" -> {"data"}
    [] name = "SettingsPanel" -> {"settings", "sections"}
    [] name = "StatsRow" -> {"stats"}
    [] name = "UserProfile" -> {"stats"}
    [] name = "Sidebar" -> {"sections"}
    [] name = "Footer" -> {"columns"}
    [] OTHER -> {}

\* a record that carries every key some element mapper reads, well formed
RecFull ==
  Obj(<< <<"name", Str("Pro")>>, <<"label", Str("Plan")>>, <<"title", Str("T")>>,
         <<"description", Str("D")>>, <<"price", Num(9)>>,
         <<"period", Str("month")>>,
         <<"features", Arr(<<Str("f"), LabelObj>>)>>,
         <<"highlighted", Bool(TRUE)>>, <<"cta", LabelObj>>,
         <<"type", Str("select")>>, <<"value", LabelObj>>,
         <<"options", Arr(<<Str("o")>>)>>,
         <<"tags", Arr(<<Str("t"), Str("u")>>)>>,
         <<"items", Arr(<<Str("i")>>)>>, <<"links", Arr(<<Str("l")>>)>>,
         <<"heading", Str("H")>>,
         <<"settings", Arr(<<Obj(<< <<"label", Str("S")>>,
                                    <<"type", Str("toggle")>>,
                                    <<"value", Bool(TRUE)>> >>)>>)>>,
         <<"icon", Str("i")>>, <<"trend", Str("up")>>, <<"change", Str("+1")>>,
         <<"data", Arr(<<Num(1), Str("2")>>)>>, <<"key", Str("k")>>,
         <<"placeholder", Str("p")>>, <<"required", Bool(TRUE)>>,
         <<"badge", Str("b")>>, <<"imageUrl", Str("u")>>,
         <<"metadata", Str("m")>> >>)

\* the same keys, malformed: scalars for lists, objects for text
RecScalar ==
  Obj(<< <<"name", Num(3)>>, <<"title", LabelObj>>, <<"price", LabelObj>>,
         <<"features", Str("f")>>, <<"highlighted", Str("yes")>>,
         <<"type", Str("bogus")>>, <<"value", Num(3)>>,
         <<"options", Str("o")>>, <<"tags", Str("t")>>,
         <<"items", Str("Home|About|Contact")>>, <<"links", Str("l")>>,
         <<"heading", LabelObj>>, <<"settings", Obj(<< <<"label", Str("S")>> >>)>>,
         <<"trend", Str("sideways")>> >>)

ListValues ==
  {Str("Home|About|Contact"), Num(7), Null, EmptyArr, Arr(<<Str("a")>>),
   Arr(<<Null>>), Arr(<<Num(1), Bool(TRUE)>>), Arr(<<EmptyObj>>),
   Arr(<<LabelObj>>), Arr(<<RecFull>>), Arr(<<RecScalar>>), RecFull,
   Arr(<<Arr(<<Str("x")>>)>>)}

\* one component, one list prop, each kind of value
ListPropInputs ==
  UNION {{SingleComponentDoc(Component(n, Obj(<< <<p, v>> >>))) :
            p \in ListProps(n), v \in ListValues} :
         n \in registryMap}

EnumValues ==
  {Str("bar"), Str("line"), Str("donut"), Str("grid"), Str("vertical"),
   Str("4"), Str(""), Str("abc"), Num(4), Num(0), Bool(TRUE), LabelObj,
   Arr(<<Str("pie")>>), Null}

\* the enum and numeric props
EnumPropInputs ==
  {SingleComponentDoc(Component(np[1], Obj(<< <<np[2], v>> >>))) :
     np \in {<<"ChartView", "type">>, <<"ChartView", "chartType">>,
             <<"CardList", "layout">>, <<"FeatureGrid", "columns">>},
     v \in EnumValues}

\* NavigationBar: the link aliases and the call-to-action forms
NavLinkForms ==
  {<<>>,
   << <<"links", HomeAbout>> >>,
   << <<"items", HomeAbout>> >>,
   << <<"navItems", HomeAbout>> >>,
   << <<"links", Null>>, <<"items", HomeAbout>> >>,
   << <<"items", Arr(<<JoinObj>>)>>, <<"navItems", HomeAbout>> >>,
   << <<"links", Str("Home|About|Contact")>> >>}

NavCtaForms ==
  {<<>>,
   << <<"cta", JoinObj>> >>,
   << <<"ctaLabel", JoinObj>> >>,
   << <<"ctaLabel", Str("Go")>>, <<"cta", JoinObj>> >>,
   << <<"cta", Str("Join")>> >>,
   << <<"cta", HrefObj>> >>}

NavigationBarInputs ==
  {SingleComponentDoc(Component("NavigationBar",
       Obj(<< <<"brand", Str("Acme")>> >> \o links \o cta))) :
     links \in NavLinkForms, cta \in NavCtaForms}

\* ChartView in labels/datasets form
ChartLabels == Arr(<<Str("a"), Str("b")>>)

ChartDatasetsInputs ==
  {SingleComponentDoc(Component("ChartView", Obj(props))) :
     props \in {
       << <<"labels", ChartLabels>>,
          <<"datasets", Arr(<<Obj(<< <<"data", Arr(<<Num(1), Str("2")>>)>> >>)>>)>> >>,
       << <<"labels", ChartLabels>>, <<"datasets", Arr(<<Null>>)>> >>,
       << <<"labels", ChartLabels>>,
          <<"datasets", Obj(<< <<"data", Num(1)>> >>)>> >>,
       << <<"data", EmptyArr>>, <<"labels", Str("x")>>,
          <<"datasets", Arr(<<Num(3)>>)>> >>,
       << <<"data", Arr(<<Num(1)>>)>>, <<"labels", ChartLabels>>,
          <<"datasets", Arr(<<Null>>)>> >>}}

\* the ways a component carries its name and its props
NamedComponents ==
  {ValidHero, MagicWidget,
   Component("herosection", EmptyObj),
   Component("HeroSection ", EmptyObj),
   Component("", EmptyObj),
   Component("(empty)", EmptyObj),
   EmptyObj,
   EmptyArr,
   Str("HeroSection"),
   Obj(<< <<"component", Str("EmptyState")>>, <<"title", LabelObj>> >>),
   Obj(<< <<"type", Str("HeroSection")>>, <<"headline", Str("Flat")>>,
          <<"props", Str("none")>> >>),
   Obj(<< <<"componentName", Null>>, <<"type", Str("Footer")>>,
          <<"props", Arr(<<Str("p")>>)>> >>),
   Obj(<< <<"componentName", Num(5)>> >>),
   Obj(<< <<"componentName", Arr(<<Str("StatsRow")>>)>>, <<"props", Null>> >>)}

\* one section, up to MaxComps components
ComponentListInputs ==
  {Document(<<MainSection(comps)>>) : comps \in SeqUpTo(MaxComps, NamedComponents)}
  \cup {Document(<<Obj(<< <<"components", c>> >>)>>) :
          c \in {ValidHero, MagicWidget, Str("HeroSection"), Null}}

\* up to MaxSections sections, each a non-mapping or a list of components
SectionElements ==
  {Null, Str("hero"), EmptyArr}
  \cup {Obj(<< <<"components", Arr(comps)>> >>) :
          comps \in SeqUpTo(MaxComps, {ValidHero, MagicWidget})}

SectionListInputs ==
  {Document(secs) : secs \in SeqUpTo(MaxSections, SectionElements)}

\* sections with explicit ids and headings
SectionIds == {Undefined, Str("hero"), Str("section-1"), Num(1), Null}

IdentifiedSections ==
  {Obj((IF id = Undefined THEN <<>> ELSE << <<"id", id>> >>)
       \o << <<"heading", h>>, <<"components", Arr(<<c>>)>> >>) :
     id \in SectionIds, h \in {Str("Top"), LabelObj}, c \in {ValidHero, MagicWidget}}

SectionIdInputs ==
  {Document(secs) : secs \in SeqUpTo(MaxSections, IdentifiedSections)}

\* the top level: values that are no mapping, and each top-level field
ExplanationValues ==
  {Null, Str("because"), Num(0), Bool(TRUE), EmptyArr, EmptyObj,
   Obj(<< <<"reasoning", LabelObj>>,
          <<"componentRationale", Obj(<< <<"hero", Str("why")>>,
                                         <<"nav", LabelObj>> >>)>>,
          <<"suggestedImprovements", Arr(<<Str("more"), LabelObj>>)>> >>),
   Obj(<< <<"reasoning", Str("r")>>,
          <<"componentRationale", Arr(<<
             Obj(<< <<"sectionId", Str("hero")>>, <<"rationale", Str("why")>> >>),
             Obj(<< <<"section", Str("nav")>>, <<"reason", LabelObj>> >>),
             Str("loose"), Num(3)>>)>>,
          <<"suggestions", Arr(<<Str("more")>>)>> >>),
   Obj(<< <<"componentRationale", Arr(<<Null>>)>> >>),
   Obj(<< <<"componentRationale", Str("text")>>,
          <<"suggestedImprovements", Str("more")>> >>)}

TopLevelFields ==
  {<<f, v>> : f \in {"appType", "app_type", "type"},
              v \in {Str("blog"), Str(""), Null, Num(7), LabelObj}}
  \cup {<<"layout", v>> :
          v \in {Str("dashboard"), Str("sidebar-detail"), Str("multi-section"),
                 Str("single-page"), Str("grid"), Arr(<<Str("dashboard")>>),
                 Num(1), Null}}
  \cup {<<"explanation", v>> : v \in ExplanationValues}
  \cup {<<"styleHints", v>> :
          v \in {Null, Str("dark"), Num(0),
                 Obj(<< <<"accentColor", Str("#fff")>>, <<"darkMode", Bool(TRUE)>>,
                        <<"nested", Arr(<<LabelObj, Null>>)>> >>)}}
  \cup {<<"sections", v>> :
          v \in {Null, Str("hero"), Num(1), MainSection(<<ValidHero>>),
                 MainSection(<<MagicWidget>>)}}

TopLevelInputs ==
  {Null, Str("text"), Num(42), Bool(TRUE), EmptyArr,
   Arr(<<MainSection(<<ValidHero>>)>>), EmptyObj}
  \cup {Obj(<<fv>>) : fv \in TopLevelFields}
  \cup {Obj(<<fv, <<"sections", Arr(<<MainSection(<<ValidHero>>)>>)>> >>) :
          fv \in {g \in TopLevelFields : g[1] # "sections"}}
  \cup {Obj(<< <<"appType", Null>>, <<"app_type", Str("shop")>>,
               <<"type", Str("blog")>> >>),
        Obj(<< <<"app_type", Str("")>>, <<"type", Str("blog")>> >>)}

\* objects that carry the display keys toSafeString tries, as appType
DisplayObjects ==
  {Obj(<< <<"label", Str("L")>>, <<"title", Str("T")>> >>),
   Obj(<< <<"title", Str("T")>>, <<"label", Str("L")>> >>),
   Obj(<< <<"label", Num(5)>>, <<"title", Str("T")>> >>),
   Obj(<< <<"label", Null>>, <<"text", Str("X")>> >>),
   Obj(<< <<"title", LabelObj>>, <<"name", Str("N")>> >>),
   Obj(<< <<"text", Str("X")>>, <<"name", Str("N")>> >>),
   Obj(<< <<"text", Str("")>> >>),
   Obj(<< <<"label", Bool(TRUE)>> >>),
   Obj(<< <<"href", Str("/x")>>, <<"id", Num(1)>> >>)}

DisplayKeyInputs == {Obj(<< <<"appType", v>> >>) : v \in DisplayObjects}

Inputs ==
  TextPropInputs \cup ListPropInputs \cup EnumPropInputs \cup NavigationBarInputs
  \cup ChartDatasetsInputs \cup ComponentListInputs \cup SectionListInputs
  \cup SectionIdInputs \cup TopLevelInputs \cup DisplayKeyInputs

(***************************************************************************)
(* The state machine: a caller holds a raw document, normalizes it, and    *)
(* normalizes the blueprint it got once more.                              *)
(***************************************************************************)
NoResult ==
  [threw |-> FALSE, blueprint |-> Undefined, warnings |-> <<>>,
   rawInput |-> Undefined]

\* src/src/lib/forgeState.tsx, lines 97-137: the five workflow nodes
defaultWorkflow ==
  [ideate |-> [status |-> "active", artifacts |-> <<>>],
   design |-> [status |-> "pending", artifacts |-> <<>>],
   build |-> [status |-> "pending", artifacts |-> <<>>],
   preview |-> [status |-> "pending", artifacts |-> <<>>],
   ship |-> [status |-> "pending", artifacts |-> <<>>]]

\* no ForgeBlueprint is mounted (src/src/lib/tambo.tsx): its props, the
\* props still to be streamed, whether its effect is due, dispatched.current,
\* and how often and what it has dispatched
NoInstance ==
  [mounted |-> FALSE, props |-> Undefined, rest |-> <<>>, effect |-> FALSE,
   dispatched |-> FALSE, renders |-> 0, pushes |-> 0, pushed |-> Undefined]

\* no submission is being handled (GroqChatInterface.handleSubmit): where
\* the handler is, what it awaits, isGenerating, and the messages and
\* dispatches of the submission
NoSubmit ==
  [at |-> "idle", generated |-> Undefined, isGenerating |-> FALSE,
   userMessages |-> 0, assistantMessages |-> 0, pushes |-> 0]

\* the blueprint part of initialState, lines 139-147
initialState ==
  [history |-> <<>>, activeIndex |-> -1, workflowNodes |-> defaultWorkflow]

Init ==
  /\ raw \in Inputs
  /\ pc = "start"
  /\ first = NoResult
  /\ second = NoResult
  /\ history = initialState.history
  /\ activeIndex = initialState.activeIndex
  /\ workflowNodes = initialState.workflowNodes
  /\ instance = NoInstance
  /\ submit = NoSubmit

\* const result = normalizeBlueprint(raw); result.rawInput is raw itself
Normalize ==
  /\ pc = "start"
  /\ raw' = DocumentAfter(raw)
  /\ first' = [normalizeBlueprint(raw) EXCEPT !.rawInput = raw']
  /\ pc' = IF first'.threw THEN "raised" ELSE "normalized"
  /\ UNCHANGED <<second, history, activeIndex, workflowNodes, instance, submit>>

\* normalizeBlueprint(result.blueprint)
Renormalize ==
  /\ pc = "normalized"
  /\ first' = [first EXCEPT !.blueprint = DocumentAfter(first.blueprint)]
  /\ second' = [normalizeBlueprint(first.blueprint)
                  EXCEPT !.rawInput = first'.blueprint]
  /\ pc' = IF second'.threw THEN "raised again" ELSE "renormalized"
  /\ UNCHANGED <<raw, history, activeIndex, workflowNodes, instance, submit>>

Next == Normalize \/ Renormalize

Spec == Init /\ [][Next]_vars

(***************************************************************************)
(* The application state (src/src/lib/forgeState.tsx) and the generation   *)
(* paths that dispatch PUSH_BLUEPRINT into it.  Of ForgeState the model    *)
(* keeps history, activeIndex and workflowNodes; createdAt, a wall-clock   *)
(* reading, is left out of the snapshot.                                   *)
(***************************************************************************)
\* history is capped so that the state space is finite
MaxHistory == 3

\* the revision that is one behind
RevisionStale(h) == Len(h)

\* revision: state.history.length + 1, line 180
Revision(h) == Len(h) + 1

\* lines 179-186
Snapshot(h, action) ==
  [revision |-> Revision(h), prompt |-> action.prompt,
   blueprint |-> action.blueprint, rawInput |-> action.rawInput,
   normalizationWarnings |-> action.normalizationWarnings]

\* `rev-${history.length}`
RevArtifact(n) == "rev-" \o ToString(n)

\* lines 188-194: build is completed and gets the artifact, preview is active
WorkflowAfterPush(wf, h) ==
  [wf EXCEPT !.build = [status |-> "completed",
                        artifacts |-> Append(wf.build.artifacts,
                                             RevArtifact(Len(h)))],
             !.preview = [wf.preview EXCEPT !.status = "active"]]

\* the push with the active index one past the new snapshot
PushedPastEnd(state, h) ==
  [history |-> h, activeIndex |-> Len(h),
   workflowNodes |-> WorkflowAfterPush(state.workflowNodes, h)]

\* lines 187-195
Pushed(state, h) ==
  [history |-> h, activeIndex |-> Len(h) - 1,
   workflowNodes |-> WorkflowAfterPush(state.workflowNodes, h)]

\* the blueprint cases of forgeReducer, lines 175-202
forgeReducer(state, action) ==
  CASE action.type = "PUSH_BLUEPRINT" ->
         Pushed(state, Append(state.history, Snapshot(state.history, action)))
    [] action.type = "SET_ACTIVE_INDEX" ->
         [state EXCEPT !.activeIndex = action.index]
    [] action.type = "RESET" -> initialState

\* activeBlueprint of ForgeProvider, lines 297-300; it is what
\* BlueprintRenderer is given
activeBlueprint ==
  IF activeIndex >= 0 /\ activeIndex < Len(history)
  THEN history[activeIndex + 1].blueprint
  ELSE Null

ForgeStateNow ==
  [history |-> history, activeIndex |-> activeIndex,
   workflowNodes |-> workflowNodes]

\* dispatch(action): the reducer's result becomes the state
Dispatch(action) ==
  \E next \in {forgeReducer(ForgeStateNow, action)} :
    /\ history' = next.history
    /\ activeIndex' = next.activeIndex
    /\ workflowNodes' = next.workflowNodes

\* a PUSH_BLUEPRINT action carrying a normalizer result
PushNormalized(r, prompt) ==
  [type |-> "PUSH_BLUEPRINT", blueprint |-> r.blueprint, prompt |-> prompt,
   rawInput |-> r.rawInput, normalizationWarnings |-> r.warnings]

\* a PUSH_BLUEPRINT action carrying a blueprint alone
PushRaw(blueprint, prompt) ==
  [type |-> "PUSH_BLUEPRINT", blueprint |-> blueprint, prompt |-> prompt,
   rawInput |-> Undefined, normalizationWarnings |-> Undefined]

\* generated && generated.appType && generated.sections
LooksLikeBlueprint(generated) ==
  /\ Truthy(generated)
  /\ Truthy(Get(generated, "appType"))
  /\ Truthy(Get(generated, "sections"))

\* a demo blueprint: saasLandingBlueprint cut down to its hero section
saasLandingBlueprint ==
  Obj(<< <<"appType", Str("landing-page")>>,
         <<"layout", Str("multi-section")>>,
         <<"sections", Arr(<< Obj(<<
              <<"id", Str("hero")>>,
              <<"components", Arr(<< Component("HeroSection", Obj(<<
                   <<"headline", Str("Sync your data")>>,
                   <<"backgroundStyle", Str("gradient")>> >>)) >>)>> >>) >>)>>,
         <<"explanation", Obj(<<
              <<"reasoning", Str("A SaaS landing page")>>,
              <<"componentRationale",
                Obj(<< <<"hero", Str("HeroSection with gradient")>> >>)>>,
              <<"suggestedImprovements", Arr(<<Str("Add an FAQ section")>>)>>
            >>)>> >>)

\* what matchDemoBlueprint can return for a matching prompt
DemoBlueprints == {saasLandingBlueprint}

\* what the model (Groq's JSON, or the props Tambo renders ForgeBlueprint
\* with) can deliver: a registry component next to an unknown one, a headline
\* that is an object, a document without sections
Generated ==
  {Obj(<< <<"appType", Str("shop")>>,
          <<"sections", Arr(<<MainSection(<<ValidHero, MagicWidget>>)>>)>> >>),
   Obj(<< <<"appType", Str("blog")>>,
          <<"sections", Arr(<<MainSection(<<
             Component("HeroSection", Obj(<< <<"title", LabelObj>> >>)) >>)>>)>>
       >>),
   Obj(<< <<"appType", Str("crm")>> >>)}

\* generateBlueprintWithGroq resolves to a document or to null
GroqResults == Generated \cup {Null}

AppInit ==
  /\ raw = Undefined
  /\ pc = "app"
  /\ first = NoResult
  /\ second = NoResult
  /\ history = initialState.history
  /\ activeIndex = initialState.activeIndex
  /\ workflowNodes = initialState.workflowNodes
  /\ instance = NoInstance
  /\ submit = NoSubmit

\* GroqChatInterface.handleSubmit, demo match (lines 53-77), and
\* TamboChatInterface.runFallback in AssetManager.tsx, demo match (530-543)
SubmitDemoNormalized ==
  /\ Len(history) < MaxHistory
  /\ \E demo \in DemoBlueprints, prompt \in {"prompt", "Fallback (Demo)"} :
       Dispatch(PushNormalized(normalizeBlueprint(demo), prompt))
  /\ UNCHANGED <<raw, pc, first, second, instance, submit>>

\* the normalizer's result is pushed; an exception is caught and logged
PushIfNormalized(r, prompt) ==
  IF r.threw
  THEN UNCHANGED <<history, activeIndex, workflowNodes>>
  ELSE Dispatch(PushNormalized(r, prompt))

\* GroqChatInterface.handleSubmit, Groq generation (lines 79-104), and
\* TamboChatInterface.runFallback in AssetManager.tsx, Groq (546-563)
SubmitGroqNormalized ==
  /\ Len(history) < MaxHistory
  /\ \E generated \in GroqResults, prompt \in {"prompt", "Fallback (Groq)"} :
       IF LooksLikeBlueprint(generated)
       THEN PushIfNormalized(normalizeBlueprint(generated), prompt)
       ELSE UNCHANGED <<history, activeIndex, workflowNodes>>
  /\ UNCHANGED <<raw, pc, first, second, instance, submit>>

\* blueprint.appType && blueprint.sections?.length > 0, tambo.tsx line 65
WorthDispatching(r) ==
  /\ ~r.threw
  /\ Truthy(Get(r.blueprint, "appType"))
  /\ Len(Get(r.blueprint, "sections").a) > 0

\* ForgeBlueprint (tambo.tsx, lines 52-80): a newly mounted instance
\* normalizes its props and its effect dispatches the result
ForgeBlueprintMounted ==
  /\ Len(history) < MaxHistory
  /\ \E props \in Generated :
       /\ WorthDispatching(normalizeBlueprint(props))
       /\ Dispatch(PushNormalized(normalizeBlueprint(props), "Tambo AI"))
  /\ UNCHANGED <<raw, pc, first, second, instance, submit>>

\* ConnectedChat's message watcher (ForgeApp.tsx, lines 263-284): the props
\* of the latest rendered component are dispatched as they are
MessageWatcher ==
  /\ Len(history) < MaxHistory
  /\ \E props \in Generated :
       IF LooksLikeBlueprint(props)
       THEN Dispatch(PushRaw(props, "Tambo AI"))
       ELSE UNCHANGED <<history, activeIndex, workflowNodes>>
  /\ UNCHANGED <<raw, pc, first, second, instance, submit>>

\* ChatInterface.handleDemoSubmit, demo match (lines 90-105)
ChatDemoSubmit ==
  /\ Len(history) < MaxHistory
  /\ \E demo \in DemoBlueprints : Dispatch(PushRaw(demo, "prompt"))
  /\ UNCHANGED <<raw, pc, first, second, instance, submit>>

\* ChatInterface.handleDemoSubmit, Groq generation (lines 108-131)
ChatGroqSubmit ==
  /\ Len(history) < MaxHistory
  /\ \E generated \in GroqResults :
       IF LooksLikeBlueprint(generated)
       THEN Dispatch(PushRaw(generated, "prompt"))
       ELSE UNCHANGED <<history, activeIndex, workflowNodes>>
  /\ UNCHANGED <<raw, pc, first, second, instance, submit>>

\* a click on the i-th revision button, shown when history.length > 1
\* (GroqChatInterface.tsx lines 188-194)
SelectRevision ==
  /\ Len(history) > 1
  /\ \E i \in 0..(Len(history) - 1) :
       Dispatch([type |-> "SET_ACTIVE_INDEX", index |-> i])
  /\ UNCHANGED <<raw, pc, first, second, instance, submit>>

\* dispatch({ type: "RESET" })
Reset ==
  /\ Dispatch([type |-> "RESET"])
  /\ UNCHANGED <<raw, pc, first, second, instance, submit>>

AppNext ==
  \/ SubmitDemoNormalized
  \/ SubmitGroqNormalized
  \/ ForgeBlueprintMounted
  \/ MessageWatcher
  \/ ChatDemoSubmit
  \/ ChatGroqSubmit
  \/ SelectRevision
  \/ Reset

AppSpec == AppInit /\ [][AppNext]_vars

(***************************************************************************)
(* One ForgeBlueprint instance, render by render (src/src/lib/tambo.tsx,   *)
(* lines 52-80).  Every render normalizes the current props into a new     *)
(* blueprint object, so the effect, which depends on that object, is due   *)
(* after every render; React runs it before the next render starts.        *)
(***************************************************************************)
\* re-renders that the parent causes are capped
MaxRenders == 3

\* the blueprint the model ends with, and the props Tambo streams on the way
CompleteProps ==
  Obj(<< <<"appType", Str("shop")>>,
         <<"layout", Str("dashboard")>>,
         <<"sections", Arr(<<MainSection(<<ValidHero>>)>>)>> >>)

PropStreams ==
  {<<CompleteProps>>,
   <<EmptyObj, CompleteProps>>,
   <<Obj(<< <<"appType", Str("shop")>> >>),
     Obj(<< <<"appType", Str("shop")>>, <<"sections", EmptyArr>> >>),
     CompleteProps>>,
   <<Obj(<< <<"appType", Str("")>> >>), CompleteProps>>}

\* the ref is left as it was
LeftUndispatched(inst) == inst

\* dispatched.current = true, line 66
MarkDispatched(inst) == [inst EXCEPT !.dispatched = TRUE]

\* a render: the effect is due again
Rendered(inst) == [inst EXCEPT !.effect = TRUE, !.renders = @ + 1]

\* Tambo mounts the component with the first props of a stream
Mount ==
  /\ ~instance.mounted
  /\ \E stream \in PropStreams :
       instance' = Rendered([NoInstance EXCEPT !.mounted = TRUE,
                                               !.props = Head(stream),
                                               !.rest = Tail(stream)])
  /\ UNCHANGED <<raw, pc, first, second, submit, history, activeIndex,
                 workflowNodes>>

\* the body of the effect, lines 65-74: the dispatch changes the context the
\* component reads through useForge, which renders it again
EffectDispatches(r) ==
  /\ instance' = Rendered([MarkDispatched(instance) EXCEPT
                             !.pushes = @ + 1, !.pushed = r.blueprint])
  /\ Dispatch(PushNormalized(r, "Tambo AI"))

\* the effect of lines 64-75 runs
RunEffect ==
  /\ instance.mounted
  /\ instance.effect
  /\ Len(history) < MaxHistory
  /\ IF ~instance.dispatched /\ WorthDispatching(normalizeBlueprint(instance.props))
     THEN EffectDispatches(normalizeBlueprint(instance.props))
     ELSE /\ instance' = [instance EXCEPT !.effect = FALSE]
          /\ UNCHANGED <<history, activeIndex, workflowNodes>>
  /\ UNCHANGED <<raw, pc, first, second, submit>>

\* Tambo hands the mounted component the next props of the stream
StreamProps ==
  /\ instance.mounted
  /\ ~instance.effect
  /\ instance.rest # <<>>
  /\ instance' = Rendered([instance EXCEPT !.props = Head(instance.rest),
                                           !.rest = Tail(instance.rest)])
  /\ UNCHANGED <<raw, pc, first, second, submit, history, activeIndex,
                 workflowNodes>>

\* the parent renders the component again with the props it has
ParentRerender ==
  /\ instance.mounted
  /\ ~instance.effect
  /\ instance.renders < MaxRenders
  /\ instance' = Rendered(instance)
  /\ UNCHANGED <<raw, pc, first, second, submit, history, activeIndex,
                 workflowNodes>>

\* the message that holds the component leaves the thread
Unmount ==
  /\ instance.mounted
  /\ instance' = NoInstance
  /\ UNCHANGED <<raw, pc, first, second, submit, history, activeIndex,
                 workflowNodes>>

TamboNext ==
  \/ Mount
  \/ RunEffect
  \/ StreamProps
  \/ ParentRerender
  \/ Unmount
  \/ Reset

TamboSpec == AppInit /\ [][TamboNext]_vars

(***************************************************************************)
(* One submission in GroqChatInterface.handleSubmit                        *)
(* (src/src/components/GroqChatInterface.tsx, lines 44-116): the statements *)
(* up to an await are one step, and what follows the await is the next.    *)
(***************************************************************************)
\* a Groq answer that has appType and sections and on which
\* normalizeBlueprint raises
RaisingAnswer ==
  Obj(<< <<"appType", Str("crm")>>,
         <<"sections", Arr(<<MainSection(<<ValidHero>>)>>)>>,
         <<"explanation", Obj(<< <<"componentRationale", Arr(<<Null>>)>> >>)>> >>)

\* what generateBlueprintWithGroq resolves to: JSON.parse of the answer, or
\* null (src/unnamed/part_003, lines 136-216)
GroqAnswers == GroqResults \cup {RaisingAnswer, Num(5), Str("sorry")}

\* the handler returns and leaves isGenerating as it was
ReturnedStillGenerating(sub, path, pushes) ==
  [sub EXCEPT !.at = "done", !.generated = Str(path),
              !.assistantMessages = @ + 1, !.pushes = @ + pushes]

\* setMessages(prev => [...prev, msg]); setIsGenerating(false); the handler
\* returns.  path names the branch taken, pushes counts its dispatch.
HandlerReturned(sub, path, pushes) ==
  [sub EXCEPT !.at = "done", !.generated = Str(path), !.isGenerating = FALSE,
              !.assistantMessages = @ + 1, !.pushes = @ + pushes]

\* lines 45-51: the user message is appended and isGenerating is set
SubmissionStarted(at, demo) ==
  [at |-> at, generated |-> demo, isGenerating |-> TRUE,
   userMessages |-> 1, assistantMessages |-> 0, pushes |-> 0]

\* onSubmit / handleSuggestionClick (lines 118-129) call handleSubmit unless
\* isGenerating; it runs to its first await, or to its end without demo
\* match and without Groq key.  The demo blueprint matched at line 53 is a
\* constant of the module, so what normalizeBlueprint makes of it at line 57
\* is fixed from here on and is carried through the delay.
SubmitPrompt ==
  /\ ~submit.isGenerating
  /\ Len(history) < MaxHistory
  /\ \E demo \in DemoBlueprints \cup {Null}, hasGroq \in BOOLEAN :
       submit' = IF demo # Null
                 THEN SubmissionStarted("delay", normalizeBlueprint(demo))
                 ELSE IF hasGroq THEN SubmissionStarted("groq", Undefined)
                 ELSE HandlerReturned(SubmissionStarted("fallback", Undefined),
                                      "no key", 0)
  /\ UNCHANGED <<raw, pc, first, second, instance, history, activeIndex,
                 workflowNodes>>

\* lines 56-77: the delay is over, the normalized demo blueprint is shown
\* and dispatched
DemoDelayElapsed ==
  /\ submit.at = "delay"
  /\ Dispatch(PushNormalized(submit.generated, "prompt"))
  /\ submit' = HandlerReturned(submit, "demo", 1)
  /\ UNCHANGED <<raw, pc, first, second, instance>>

\* lines 84-101: the answer is normalized, shown and dispatched; an exception
\* of the normalizer is caught at line 102 and the fallback message follows
UsableAnswer(r) ==
  IF r.threw
  THEN /\ submit' = HandlerReturned(submit, "raised", 0)
       /\ UNCHANGED <<history, activeIndex, workflowNodes>>
  ELSE /\ submit' = HandlerReturned(submit, "groq", 1)
       /\ Dispatch(PushNormalized(r, "prompt"))

\* lines 80-115: generateBlueprintWithGroq has settled
GroqSettled ==
  /\ submit.at = "groq"
  /\ \E generated \in GroqAnswers :
       IF LooksLikeBlueprint(generated)
       THEN UsableAnswer(normalizeBlueprint(generated))
       ELSE /\ submit' = HandlerReturned(submit, "unusable", 0)
            /\ UNCHANGED <<history, activeIndex, workflowNodes>>
  /\ UNCHANGED <<raw, pc, first, second, instance>>

SubmitNext ==
  \/ SubmitPrompt
  \/ DemoDelayElapsed
  \/ GroqSettled
  \/ SelectRevision
  \/ Reset

\* the timer of line 56 fires and the promise of line 81 settles
SubmitSpec ==
  /\ AppInit
  /\ [][SubmitNext]_vars
  /\ WF_vars(DemoDelayElapsed)
  /\ WF_vars(GroqSettled)


(***************************************************************************)
(* Reading a result and the raw document it came from                      *)
(***************************************************************************)
\* blueprint.sections and section.components of a returned blueprint
Sections(bp) == Get(bp, "sections").a
Components(sec) == Get(sec, "components").a
NameOf(comp) == Get(comp, "componentName").s

\* the results the caller holds
Returned == {r \in {first, second} : r.blueprint # Undefined}

\* every component of a returned blueprint satisfies P
AllComponents(bp, P(_)) ==
  \A i \in 1..Len(Sections(bp)) :
    \A j \in 1..Len(Components(Sections(bp)[i])) : P(Components(Sections(bp)[i])[j])

\* the raw sections and the raw components the loops iterate over
RawSections(doc) ==
  IF IsNullish(doc) THEN <<>>
  ELSE ensureArray(Coalesce(Get(doc, "sections"), EmptyArr))
RawComponents(sec) == ensureArray(Coalesce(Get(sec, "components"), EmptyArr))

\* the names of the raw components of a section that the loop looks at
RawNames(sec) ==
  Map(SelectSeq(RawComponents(sec), LAMBDA c : ~Skipped(c)), ComponentName)

KnownNames(sec) == SelectSeq(RawNames(sec), LAMBDA n : n \in registryMap)
UnknownNames(sec) == SelectSeq(RawNames(sec), LAMBDA n : n \notin registryMap)

\* the indices of the raw sections the loop looks at
Looked(doc) == {i \in 1..Len(RawSections(doc)) : ~Skipped(RawSections(doc)[i])}
RawId(doc, i) == SectionId(RawSections(doc)[i], i - 1)

\* per raw section in order: Each(doc, i) where the section is looked at and
\* satisfies Keep, nothing elsewhere
PerSection(doc, Keep(_), Each(_, _)) ==
  ConcatAll([i \in 1..Len(RawSections(doc)) |->
               IF i \in Looked(doc) /\ Keep(RawSections(doc)[i])
               THEN Each(doc, i) ELSE <<>>])

EverySection(sec) == TRUE
Survives(sec) == Len(KnownNames(sec)) > 0
Vanishes(sec) == Len(KnownNames(sec)) = 0

\* <<id, names of the valid components>> of each raw section that has some
ExpectedSections(doc) ==
  PerSection(doc, Survives,
             LAMBDA d, i : << <<RawId(d, i), KnownNames(RawSections(d)[i])>> >>)

\* <<id, names of the components>> of each section of a blueprint
ActualSections(bp) ==
  [i \in 1..Len(Sections(bp)) |->
     <<Get(Sections(bp)[i], "id").s, Map(Components(Sections(bp)[i]), NameOf)>>]

\* the warnings of one type, in order
WarningsOf(r, type) == SelectSeq(r.warnings, LAMBDA w : w.type = type)

\* <<sectionId, componentName>> of each dropped-component warning
ActualDrops(r) ==
  Map(WarningsOf(r, "dropped-component"),
      LAMBDA w : <<w.sectionId.s, w.componentName.s>>)

\* the section ids of the invalid-section warnings that carry one
ActualDroppedSections(r) ==
  Map(SelectSeq(WarningsOf(r, "invalid-section"),
                LAMBDA w : w.sectionId # Undefined),
      LAMBDA w : w.sectionId.s)

\* the props of the only component of the only section
OnlyComponent(bp) == Components(Sections(bp)[1])[1]
OnlyProps(bp) == Get(OnlyComponent(bp), "props")

RECURSIVE Canon(_)
\* a value up to the order of keys, without the keys whose value is undefined
Canon(v) ==
  CASE v.k = "array" ->
         [k |-> "array", a |-> [i \in 1..Len(v.a) |-> Canon(v.a[i])]]
    [] v.k = "object" ->
         [k |-> "object",
          m |-> {<<v.o[i][1], Canon(v.o[i][2])>> :
                   i \in {j \in 1..Len(v.o) : v.o[j][2] # Undefined}}]
    [] OTHER -> v

(***************************************************************************)
(* Properties                                                              *)
(***************************************************************************)
\* C1: for every raw document normalizeBlueprint returns a result and never
\* raises to its caller.  Violated: a null document raises at raw.appType,
\* and a null entry of explanation.componentRationale raises at r.sectionId.
C1_NeverRaises == pc \notin {"raised", "raised again"}

\* C2: every returned blueprint has at least one section, and every section
\* of it has at least one component.
C2_SectionsAndComponents ==
  \A r \in Returned :
    /\ Len(Sections(r.blueprint)) >= 1
    /\ \A i \in 1..Len(Sections(r.blueprint)) :
         Len(Components(Sections(r.blueprint)[i])) >= 1

\* a raw section was dropped and another one was kept
C2_DroppedAndKept ==
  /\ pc = "normalized"
  /\ Len(WarningsOf(first, "invalid-section")) > 0
  /\ ExpectedSections(raw) # <<>>
  /\ ActualSections(first.blueprint) = ExpectedSections(raw)

\* C3: every componentName of a returned blueprint, the fallback's included,
\* is a name of the registry.
C3_NamesInRegistry ==
  \A r \in Returned :
    AllComponents(r.blueprint, LAMBDA c : NameOf(c) \in registryMap)

\* an unknown component was dropped next to a kept one
C3_UnknownNextToKnown ==
  /\ pc = "normalized"
  /\ \E i \in Looked(raw) :
       Len(UnknownNames(RawSections(raw)[i])) > 0
       /\ Len(KnownNames(RawSections(raw)[i])) > 0
  /\ Len(ActualDrops(first)) > 0

\* what the warning of a dropped component names: the name, "(empty)" for none
ReportedName(n) == IF n = "" THEN "(empty)" ELSE n

C5_Idempotent ==
  pc = "renormalized" =>
    /\ Canon(second.blueprint) = Canon(first.blueprint)
    /\ second.warnings = <<>>

\* C6: when no raw section survives, the blueprint is one section holding
\* one EmptyState, and exactly one invalid-section warning without a
\* sectionId is recorded; for {} it is the only warning.
C6_Fallback ==
  (pc = "normalized" /\ ExpectedSections(raw) = <<>>) =>
    /\ ActualSections(first.blueprint) = << <<"fallback", <<"EmptyState">> >> >>
    /\ Len(SelectSeq(WarningsOf(first, "invalid-section"),
                     LAMBDA w : w.sectionId = Undefined)) = 1
    /\ first.warnings[Len(first.warnings)].sectionId = Undefined
    /\ raw = EmptyObj => Len(first.warnings) = 1

\* every section of the document was dropped, and the fallback stands
C6_AllDropped ==
  /\ pc = "normalized"
  /\ Len(RawSections(raw)) = MaxSections
  /\ Len(ActualDroppedSections(first)) = MaxSections
  /\ Sections(first.blueprint) = <<FallbackSection>>

\* C7: the invalid-section warnings that carry an id are, in order, one per
\* looked-at raw section none of whose components survives, with that
\* section's id; the blueprint holds the other sections and only them, or
\* the fallback section when there is none.
C7_EmptySectionsDropped ==
  pc = "normalized" =>
    /\ ActualDroppedSections(first)
         = PerSection(raw, Vanishes, LAMBDA d, i : <<RawId(d, i)>>)
    /\ ExpectedSections(raw) # <<>> =>
         Map(ActualSections(first.blueprint), LAMBDA s : s[1])
           = Map(ExpectedSections(raw), LAMBDA s : s[1])
    /\ ExpectedSections(raw) = <<>> =>
         Sections(first.blueprint) = <<FallbackSection>>

\* the only section held one unresolvable component: the fallback replaces it
C7_OnlySectionDropped ==
  /\ pc = "normalized"
  /\ raw = Document(<<MainSection(<<MagicWidget>>)>>)
  /\ ActualDroppedSections(first) = <<"main">>
  /\ Sections(first.blueprint) = <<FallbackSection>>

\* C8: no prop that the registry declares as text holds an object in a
\* normalized component.  Violated: HeroSection primaryCta, secondaryCta and
\* a headline taken from title or heading, EmptyState ctaLabel, every
\* accentColor and heading keep the object.
C8_TextPropsAreStrings ==
  pc = "normalized" =>
    AllComponents(first.blueprint, LAMBDA c :
      \A p \in TextProps(NameOf(c)) : Get(Get(c, "props"), p).k # "object")

\* C9: a list-of-strings prop that arrives as a bare string becomes the list
\* holding that string.  Violated: toStringArray returns the empty list.
C9_ScalarBecomesList ==
  \A np \in {<<"NavigationBar", "links">>, <<"AppShell", "sidebarItems">>} :
    (/\ pc = "normalized"
     /\ raw = SingleComponentDoc(Component(np[1],
                 Obj(<< <<np[2], Str("Home|About|Contact")>> >>))))
    => Get(OnlyProps(first.blueprint), np[2])
         = Arr(<<Str("Home|About|Contact")>>)

\* the raw props of the only component of a one-component document
RawOnlyProps == Get(RawComponents(RawSections(raw)[1])[1], "props")

\* C10: a NavigationBar whose links arrive as items or navItems and whose
\* call-to-action arrives as cta: {label, href} ends with the canonical keys
\* only.  Violated: the alias key stays next to links.
C10_AliasesResolved ==
  (/\ pc = "normalized"
   /\ raw \in NavigationBarInputs
   /\ ~Has(RawOnlyProps, "links")
   /\ Has(RawOnlyProps, "items") \/ Has(RawOnlyProps, "navItems")
   /\ Get(RawOnlyProps, "cta") = JoinObj
   /\ ~Has(RawOnlyProps, "ctaLabel"))
  => /\ Get(OnlyProps(first.blueprint), "links")
          = toStringArray(Coalesce(Get(RawOnlyProps, "items"),
                                   Get(RawOnlyProps, "navItems")))
     /\ Get(OnlyProps(first.blueprint), "ctaLabel") = Str("Join")
     /\ ~Has(OnlyProps(first.blueprint), "items")
     /\ ~Has(OnlyProps(first.blueprint), "navItems")
     /\ ~Has(OnlyProps(first.blueprint), "cta")
     /\ Len(ActualDrops(first)) = 0


\* the raw components of a section that reach the per-type normalizer
KnownRaw(sec) ==
  SelectSeq(SelectSeq(RawComponents(sec), LAMBDA c : ~Skipped(c)),
            LAMBDA c : ComponentName(c) \in registryMap)

\* the fixed-prop warning expected of a normalizer result, if any
ExpectedFixed(id, name, r) ==
  IF r.threw THEN << <<id, name, "Normalizer error: " \o r.err>> >> ELSE <<>>

\* <<sectionId, componentName, detail>> of each fixed-prop warning
ActualFixed(r) ==
  Map(WarningsOf(r, "fixed-prop"),
      LAMBDA w : <<w.sectionId.s, w.componentName.s, w.detail>>)

\* the props every kept component of a raw section ends with
ExpectedProps(sec) ==
  Map(KnownRaw(sec),
      LAMBDA c : sanitizeValue(propNormalizers(ComponentName(c), RawProps(c)).props))

\* C11: the fixed-prop warnings are, in order, one per registered component
\* whose normalizer raised, carrying the exception text; every registered
\* component stays in its section whether its normalizer raised or not, with
\* the props as the normalizer left them.
C11_RaisingNormalizerKept ==
  pc = "normalized" =>
    /\ ActualFixed(first)
         = PerSection(raw, EverySection, LAMBDA d, i :
             ConcatAll(Map(KnownRaw(RawSections(d)[i]), LAMBDA c :
               ExpectedFixed(RawId(d, i), ComponentName(c),
                             propNormalizers(ComponentName(c), RawProps(c))))))
    /\ ExpectedSections(raw) # <<>> =>
         /\ ActualSections(first.blueprint) = ExpectedSections(raw)
         /\ [i \in 1..Len(Sections(first.blueprint)) |->
               Map(Components(Sections(first.blueprint)[i]),
                   LAMBDA c : Get(c, "props"))]
              = PerSection(raw, Survives, LAMBDA d, i :
                  <<ExpectedProps(RawSections(d)[i])>>)

\* UserProfile with stats: [null]: the name default was applied before the
\* exception, stats was not yet deleted, one warning carries the TypeError
C11_UserProfileRaised ==
  /\ pc = "normalized"
  /\ raw = SingleComponentDoc(Component("UserProfile",
              Obj(<< <<"stats", Arr(<<Null>>)>> >>)))
  /\ OnlyProps(first.blueprint)
       = Obj(<< <<"stats", Arr(<<Null>>)>>, <<"name", Str("User")>> >>)
  /\ ActualFixed(first)
       = << <<"main", "UserProfile",
              "Normalizer error: TypeError: Cannot read properties of null (reading 'label')">> >>

RECURSIVE PlainData(_)
\* a string, a number, a boolean, null, or an array or mapping of such values
PlainData(v) ==
  CASE v.k \in {"string", "number", "boolean", "null"} -> TRUE
    [] v.k = "array" -> \A i \in 1..Len(v.a) : PlainData(v.a[i])
    [] v.k = "object" -> \A i \in 1..Len(v.o) : PlainData(v.o[i][2])
    [] OTHER -> FALSE

\* C12: every value inside the props of every component of a returned
\* blueprint is plain data.  Violated: the element mappers write the omitted
\* optional fields as undefined-valued entries, and sanitizeValue keeps them.
C12_PropsArePlainData ==
  \A r \in Returned :
    AllComponents(r.blueprint, LAMBDA c : PlainData(Get(c, "props")))

NormalizerOutputs ==
  {normalizeBlueprint(doc).blueprint :
     doc \in {d \in DemoBlueprints \cup Generated : ~normalizeBlueprint(d).threw}}

\* C14: every blueprint pushed into history, and so the blueprint handed to
\* BlueprintRenderer, is an output of normalizeBlueprint on every generation
\* path; raw demo or model JSON is never pushed.
C14_OnlyNormalizedPushed ==
  /\ \A i \in 1..Len(history) : history[i].blueprint \in NormalizerOutputs
  /\ activeBlueprint # Null => activeBlueprint \in NormalizerOutputs

\* C15: PUSH_BLUEPRINT appends exactly one snapshot whose revision is the
\* previous length of history plus one, leaves the earlier snapshots as they
\* were and makes the new snapshot the active one; so the i-th snapshot of
\* history always has revision i.
C15_PushAppendsNextRevision ==
  [][/\ \A i \in 1..Len(history') : history'[i].revision = i
     /\ (history' # history /\ history' # <<>>) =>
          /\ Len(history') = Len(history) + 1
          /\ SubSeq(history', 1, Len(history)) = history
          /\ history'[Len(history')].revision = Len(history) + 1
          /\ activeIndex' = Len(history') - 1
          /\ activeBlueprint' = history'[Len(history')].blueprint]_vars

\* a second snapshot was pushed behind a first and is the active one
C15_SecondRevisionActive ==
  /\ Len(history) >= 2
  /\ history[1].revision = 1
  /\ history[2].revision = 2
  /\ activeIndex = Len(history) - 1

(***************************************************************************)
(* The top-level fields                                                    *)
(***************************************************************************)
\* raw.explanation.componentRationale and what the first call made of it
RawRationale == Get(Get(raw, "explanation"), "componentRationale")
OutRationale == Get(Get(first.blueprint, "explanation"), "componentRationale")

\* the first call returned and the raw explanation is an object
ExplanationNormalized ==
  /\ pc \notin {"start", "raised"}
  /\ Truthy(Get(raw, "explanation"))
  /\ typeof(Get(raw, "explanation")) = "object"

IsText(v) == typeof(v) = "string"

\* out is the pair {sectionId, rationale} of strings made from the element r
PairOf(r, out) ==
  /\ typeof(out) = "object" /\ ~isArray(out)
  /\ Len(out.o) = 2
  /\ out.o[1][1] = "sectionId" /\ IsText(out.o[1][2])
  /\ out.o[2][1] = "rationale" /\ IsText(out.o[2][2])
  /\ IsText(Get(r, "sectionId")) => out.o[1][2] = Get(r, "sectionId")
  /\ IsText(Get(r, "rationale")) => out.o[2][2] = Get(r, "rationale")

\* the same associations, written in the other of the two forms
RationaleOtherForm(cr) ==
  IF isArray(cr)
  THEN Obj([i \in 1..Len(cr.a) |->
              <<toSafeString(Coalesce3(Get(cr.a[i], "sectionId"),
                                       Get(cr.a[i], "section"), Str(""))),
                Coalesce3(Get(cr.a[i], "rationale"), Get(cr.a[i], "reason"),
                          Str(""))>>])
  ELSE Arr([i \in 1..Len(cr.o) |->
              Obj(<< <<"sectionId", Str(cr.o[i][1])>>,
                     <<"rationale", cr.o[i][2]>> >>)])

FirstReturned == pc \notin {"start", "raised"}

\* C17: the appType of the returned blueprint is a non-empty string, "app"
\* standing in whenever the text of the first present of appType, app_type,
\* type is empty.  Violated: an empty string is not null, so ?? keeps it.
C17_AppTypeNonEmpty ==
  FirstReturned =>
    /\ IsText(Get(first.blueprint, "appType"))
    /\ Get(first.blueprint, "appType") # Str("")

\* the layout of the returned blueprint
OutLayout == Get(first.blueprint, "layout")

\* C18 (as the code has it): the layout is one of the four values; it is the
\* text String(raw.layout) when that text is one of the four and single-page
\* otherwise, and the warnings are those of the same document without its
\* layout.
C18_LayoutFromText ==
  FirstReturned =>
    /\ OutLayout \in {Str("single-page"), Str("sidebar-detail"),
                      Str("multi-section"), Str("dashboard")}
    /\ OutLayout =
         IF String(Get(raw, "layout")) \in
              {"single-page", "sidebar-detail", "multi-section", "dashboard"}
         THEN Str(String(Get(raw, "layout")))
         ELSE Str("single-page")
    /\ Has(raw, "layout") =>
         first.warnings = normalizeBlueprint(Delete(raw, "layout")).warnings

\* a layout outside the four gave single-page and no warning
C18_GridBecomesSinglePage ==
  /\ FirstReturned
  /\ Get(raw, "layout") = Str("grid")
  /\ OutLayout = Str("single-page")
  /\ first.warnings = <<>>

\* C18 (as stated): the layout equals the raw layout when that is one of the
\* four values and is single-page otherwise.
C18_RawLayoutOrSinglePage ==
  FirstReturned =>
    OutLayout =
      IF Get(raw, "layout") \in {Str("single-page"), Str("sidebar-detail"),
                                 Str("multi-section"), Str("dashboard")}
      THEN Get(raw, "layout")
      ELSE Str("single-page")

(***************************************************************************)
(* What the two loops keep and what they skip                              *)
(***************************************************************************)
\* a mapping: an object that is neither null nor a list
IsMapping(v) == typeof(v) = "object" /\ v # Null /\ ~isArray(v)

\* the raw components of a section that are mappings, and those of them
\* whose name is a registry name
MappingComponents(sec) == SelectSeq(RawComponents(sec), IsMapping)
ResolvedComponents(sec) ==
  SelectSeq(MappingComponents(sec), LAMBDA c : ComponentName(c) \in registryMap)
UnresolvedComponents(sec) ==
  SelectSeq(MappingComponents(sec), LAMBDA c : ComponentName(c) \notin registryMap)

\* per raw section that is a mapping, in order
PerMapping(doc, Each(_, _)) ==
  ConcatAll([i \in 1..Len(RawSections(doc)) |->
               IF IsMapping(RawSections(doc)[i]) THEN Each(doc, i) ELSE <<>>])

\* <<id, <<name, props>> of each resolved component>> of each raw mapping
\* section that keeps a component
ExpectedContents(doc) ==
  PerMapping(doc, LAMBDA d, i :
    IF Len(ResolvedComponents(RawSections(d)[i])) = 0 THEN <<>>
    ELSE << <<RawId(d, i),
              Map(ResolvedComponents(RawSections(d)[i]), LAMBDA c :
                <<ComponentName(c),
                  sanitizeValue(propNormalizers(ComponentName(c),
                                                RawProps(c)).props)>>)>> >>)

\* <<id, <<name, props>> of each component>> of each section of a blueprint
ActualContents(bp) ==
  [i \in 1..Len(Sections(bp)) |->
     <<Get(Sections(bp)[i], "id").s,
       Map(Components(Sections(bp)[i]),
           LAMBDA c : <<NameOf(c), Get(c, "props")>>)>>]

\* C19: unless the fallback is synthesized, the sections of the returned
\* blueprint are exactly the raw mapping sections that keep a component, in
\* order, and the components of each are exactly its raw mapping components
\* whose name is a registry name, in order, none dropped, doubled or moved;
\* the fallback is synthesized exactly when no raw section keeps a component.
C19_KeptInOrder ==
  pc = "normalized" =>
    IF ExpectedContents(raw) # <<>>
    THEN ActualContents(first.blueprint) = ExpectedContents(raw)
    ELSE Sections(first.blueprint) = <<FallbackSection>>

\* a section kept two components of different names in their raw order
C19_TwoKeptInOrder ==
  /\ pc = "normalized"
  /\ Len(RawSections(raw)) = 1
  /\ Len(ResolvedComponents(RawSections(raw)[1])) = 2
  /\ ComponentName(ResolvedComponents(RawSections(raw)[1])[1])
       # ComponentName(ResolvedComponents(RawSections(raw)[1])[2])
  /\ Map(Components(Sections(first.blueprint)[1]), NameOf)
       = Map(ResolvedComponents(RawSections(raw)[1]), ComponentName)

\* C20: an element of the sections list or of a components list that is not
\* a mapping leaves no trace: the dropped-component warnings are those of the
\* mapping components with an unresolved name, the invalid-section warnings
\* those of the mapping sections that keep no component.  Violated: a list
\* passes typeof v === "object", is normalized and is reported.
C20_NonMappingsLeaveNoTrace ==
  pc = "normalized" =>
    /\ ActualDrops(first)
         = PerMapping(raw, LAMBDA d, i :
             Map(UnresolvedComponents(RawSections(d)[i]),
                 LAMBDA c : <<RawId(d, i), ReportedName(ComponentName(c))>>))
    /\ ActualDroppedSections(first)
         = PerMapping(raw, LAMBDA d, i :
             IF Len(ResolvedComponents(RawSections(d)[i])) = 0
             THEN <<RawId(d, i)>> ELSE <<>>)

(***************************************************************************)
(* toSafeString on an object, seen through appType                         *)
(***************************************************************************)
DisplayKeys == <<"label", "title", "name", "text">>

\* the positions in DisplayKeys of the keys of obj that are present, and of
\* those whose value is a string
PresentKeys(obj) == {i \in 1..4 : Has(obj, DisplayKeys[i])}
TextKeys(obj) == {i \in 1..4 : IsText(Get(obj, DisplayKeys[i]))}

\* the least position of a non-empty set of positions
First(S) == CHOOSE i \in S : \A j \in S : i <= j

\* the first call returned for a document whose appType is a mapping
AppTypeFromMapping == FirstReturned /\ IsMapping(Get(raw, "appType"))

\* C21 (as the code has it): toSafeString of an object is the value of the
\* first of label, title, name, text whose value is a string, and the JSON
\* text of the object when none of the four holds a string.
C21_FirstTextKeyWins ==
  AppTypeFromMapping =>
    Get(first.blueprint, "appType") =
      IF TextKeys(Get(raw, "appType")) # {}
      THEN Get(Get(raw, "appType"),
               DisplayKeys[First(TextKeys(Get(raw, "appType")))])
      ELSE Str(JSONstringify(Get(raw, "appType")))

\* a label that is a number was passed over for the title
C21_NumberLabelPassedOver ==
  /\ AppTypeFromMapping
  /\ Get(Get(raw, "appType"), "label") = Num(5)
  /\ Get(first.blueprint, "appType") = Str("T")

\* C21 (as stated): the first key that is present decides, whatever its
\* value is; the JSON text is used only when none of the four is present.
C21_FirstPresentKeyWins ==
  AppTypeFromMapping =>
    IF PresentKeys(Get(raw, "appType")) # {}
    THEN Get(first.blueprint, "appType") =
           Get(Get(raw, "appType"),
               DisplayKeys[First(PresentKeys(Get(raw, "appType")))])
    ELSE Get(first.blueprint, "appType")
           = Str(JSONstringify(Get(raw, "appType")))

(***************************************************************************)
(* The raw props of a component                                            *)
(***************************************************************************)
NameKeys == {"componentName", "component", "type"}

\* the sibling keys of a component without the name keys
SiblingProps(comp) == Obj(SelectSeq(comp.o, LAMBDA p : p[1] \notin NameKeys))

\* the nested props when they are a mapping, the sibling keys otherwise
HandedProps(comp) ==
  IF IsMapping(Get(comp, "props")) THEN Get(comp, "props") ELSE SiblingProps(comp)

\* the props of the components of a blueprint, section by section
ActualProps(bp) ==
  ConcatAll([i \in 1..Len(Sections(bp)) |->
               Map(Components(Sections(bp)[i]), LAMBDA c : Get(c, "props"))])

\* the resolved raw components of a document, section by section
AllResolved(doc) ==
  PerMapping(doc, LAMBDA d, i : ResolvedComponents(RawSections(d)[i]))

\* C22: the props handed to the per-type normalizer are the nested props
\* when these are a mapping and the sibling keys without componentName,
\* component and type otherwise, with the raw keys and values; a flattened
\* component ends without componentName and component among its props, and
\* without type unless it is a ChartView, whose normalizer sets the chart
\* type.
C22_RawPropsHandedOver ==
  (pc = "normalized" /\ AllResolved(raw) # <<>>) =>
    /\ ActualProps(first.blueprint)
         = Map(AllResolved(raw), LAMBDA c :
             sanitizeValue(propNormalizers(ComponentName(c), HandedProps(c)).props))
    /\ \A i \in 1..Len(AllResolved(raw)) :
         ~IsMapping(Get(AllResolved(raw)[i], "props")) =>
           /\ ~Has(ActualProps(first.blueprint)[i], "componentName")
           /\ ~Has(ActualProps(first.blueprint)[i], "component")
           /\ ComponentName(AllResolved(raw)[i]) # "ChartView" =>
                ~Has(ActualProps(first.blueprint)[i], "type")

\* a component named by type, with its props flattened next to the name and
\* a props key that is no mapping, kept its sibling keys and lost the name
C22_FlattenedHero ==
  /\ pc = "normalized"
  /\ Len(AllResolved(raw)) = 1
  /\ Has(AllResolved(raw)[1], "type")
  /\ Get(AllResolved(raw)[1], "props") = Str("none")
  /\ Get(ActualProps(first.blueprint)[1], "headline") = Str("Flat")
  /\ Get(ActualProps(first.blueprint)[1], "props") = Str("none")
  /\ ~Has(ActualProps(first.blueprint)[1], "type")

(***************************************************************************)
(* Enum and numeric props                                                  *)
(***************************************************************************)
\* the prop is absent from the component or holds one of the strings
AbsentOrOneOf(c, prop, values) ==
  Has(Get(c, "props"), prop) => Get(Get(c, "props"), prop) \in {Str(v) : v \in values}

\* every setting of a SettingsPanel holds one of the strings as its type
SettingTypesOneOf(c, values) ==
  \A i \in 1..Len(Get(Get(c, "props"), "settings").a) :
    Get(Get(Get(c, "props"), "settings").a[i], "type") \in {Str(v) : v \in values}

\* C23: after normalization a ChartView type is one of bar, line, pie, a
\* CardList layout one of vertical, horizontal, grid, and the type of every
\* SettingsPanel setting one of toggle, text, select.  Violated: a falsy
\* type or layout ("", 0, false, null) is not tested, and a one-element list
\* such as ["pie"] passes the test on its text and is kept as a list.
C23_EnumPropsInRange ==
  pc = "normalized" =>
    AllComponents(first.blueprint, LAMBDA c :
      /\ NameOf(c) = "ChartView" => AbsentOrOneOf(c, "type", {"bar", "line", "pie"})
      /\ NameOf(c) = "CardList" =>
           AbsentOrOneOf(c, "layout", {"vertical", "horizontal", "grid"})
      /\ NameOf(c) = "SettingsPanel" =>
           SettingTypesOneOf(c, {"toggle", "text", "select"}))

\* the first call returned for a document that holds one FeatureGrid whose
\* raw columns are neither absent nor null
ColumnsGiven ==
  /\ pc = "normalized"
  /\ raw \in EnumPropInputs
  /\ NameOf(OnlyComponent(first.blueprint)) = "FeatureGrid"
  /\ ~IsNullish(Get(RawOnlyProps, "columns"))

\* C24: FeatureGrid columns that are given end as a number: a number is
\* kept, a numeric string becomes its integer value, everything else,
\* the empty string included, becomes 3.  Violated: the empty string and
\* false are falsy and stay as they are, and "0" parses to 0, which || turns
\* into 3.
C24_ColumnsIsNumber ==
  ColumnsGiven =>
    /\ typeof(Get(OnlyProps(first.blueprint), "columns")) = "number"
    /\ Get(OnlyProps(first.blueprint), "columns") =
         IF typeof(Get(RawOnlyProps, "columns")) = "number"
         THEN Get(RawOnlyProps, "columns")
         ELSE IF /\ IsText(Get(RawOnlyProps, "columns"))
                 /\ ~IsNaN(parseNumber(Get(RawOnlyProps, "columns").s))
         THEN parseNumber(Get(RawOnlyProps, "columns").s)
         ELSE Num(3)

(***************************************************************************)
(* The explanation and the section ids of a returned blueprint             *)
(***************************************************************************)
OutExplanation == Get(first.blueprint, "explanation")

\* a record with a reasoning string and a list of suggestion strings
StructuredExplanation(e) ==
  /\ IsMapping(e)
  /\ IsText(Get(e, "reasoning"))
  /\ isArray(Get(e, "suggestedImprovements"))
  /\ \A i \in 1..Len(Get(e, "suggestedImprovements").a) :
       IsText(Get(e, "suggestedImprovements").a[i])

\* C25: an explanation that the returned blueprint carries (a truthy value)
\* is a record with a reasoning string and a list of suggestion strings,
\* whatever the raw explanation was; without a raw explanation there is
\* none.  Violated: a raw explanation that is a string, a number or true is
\* no object and is returned as it came.
C25_ExplanationStructured ==
  FirstReturned =>
    /\ Truthy(OutExplanation) => StructuredExplanation(OutExplanation)
    /\ ~Has(raw, "explanation") => OutExplanation = Undefined

\* C26: the section ids of a returned blueprint are pairwise distinct, the
\* defaulted ids section-<index> included.  Violated: ids are copied as they
\* come, so two raw sections with the same id, or an explicit "section-1"
\* before a section without id at index 1, return the same id twice.
C26_SectionIdsDistinct ==
  FirstReturned =>
    \A i, j \in 1..Len(Sections(first.blueprint)) :
      i # j => Get(Sections(first.blueprint)[i], "id")
                 # Get(Sections(first.blueprint)[j], "id")

(***************************************************************************)
(* The active revision                                                     *)
(***************************************************************************)
\* C27: with every SET_ACTIVE_INDEX carrying the index of an existing
\* snapshot, activeIndex is -1 exactly when history is empty and otherwise
\* lies in 0 .. length(history) - 1, so activeBlueprint is null exactly when
\* history is empty.
C27_ActiveIndexInRange ==
  /\ activeIndex = -1 <=> history = <<>>
  /\ history # <<>> => (0 <= activeIndex /\ activeIndex < Len(history))
  /\ activeBlueprint = Null <=> history = <<>>

\* an earlier revision was selected behind two pushes
C27_EarlierRevisionSelected ==
  /\ Len(history) >= 2
  /\ activeIndex = 0
  /\ activeBlueprint = history[1].blueprint

(***************************************************************************)
(* One mounted ForgeBlueprint                                              *)
(***************************************************************************)
\* C28: one mounted ForgeBlueprint dispatches PUSH_BLUEPRINT at most once,
\* however often it renders and its effect runs again.
C28_AtMostOneDispatch ==
  /\ instance.pushes <= 1
  /\ instance.dispatched <=> instance.pushes = 1

\* the effect ran again after the dispatch, and has nothing left to do
C28_RenderedAgainAfterDispatch ==
  /\ instance.mounted
  /\ instance.pushes = 1
  /\ instance.renders >= 3
  /\ ~instance.effect

\* C29: when the props are streamed in, the snapshot that the instance
\* pushed is the normalization of the last, complete props.  Violated: the
\* first render already yields appType "app" and the fallback section, so
\* the first partial props are dispatched and the ref blocks every later
\* dispatch.
C29_CompletePropsPushed ==
  (/\ instance.mounted
   /\ instance.rest = <<>>
   /\ ~instance.effect
   /\ instance.dispatched) =>
    instance.pushed = normalizeBlueprint(instance.props).blueprint

(***************************************************************************)
(* One submission                                                          *)
(***************************************************************************)
\* C30: every submission that handleSubmit takes up completes; when it has,
\* exactly one assistant message was appended, isGenerating is false again,
\* and PUSH_BLUEPRINT was dispatched once on the demo and the Groq path and
\* not at all on the others.
C30_SubmissionCompletes ==
  /\ [](submit.at = "done" =>
          /\ submit.assistantMessages = 1
          /\ submit.userMessages = 1
          /\ ~submit.isGenerating
          /\ submit.pushes = IF submit.generated \in {Str("demo"), Str("groq")}
                             THEN 1 ELSE 0)
  /\ [](submit.at \in {"delay", "groq"} => submit.isGenerating)
  /\ (submit.at \in {"delay", "groq"}) ~> (submit.at = "done")

\* the normalizer raised on the Groq answer and the submission still ended
\* with the fallback message
C30_RaisedAndCompleted ==
  /\ submit.at = "done"
  /\ submit.generated = Str("raised")
  /\ submit.assistantMessages = 1
  /\ ~submit.isGenerating
  /\ submit.pushes = 0
====
